---- MODULE Spec2Model ----
(***************************************************************************)
(* Model of src/app/page.tsx: the deep response extractor                  *)
(* (extractAgentData), the scan handler (runScan), the publish handlers    *)
(* (publishThread, publishAllApproved) and the approval controls of Page.  *)
(*                                                                         *)
(* JavaScript values are tagged records:                                   *)
(*   [t |-> "undefined"], [t |-> "null"], [t |-> "boolean", b |-> ...],    *)
(*   [t |-> "number", n |-> ...], [t |-> "string", s |-> ..., json |-> ...],*)
(*   [t |-> "object", f |-> function from keys to values],                 *)
(*   [t |-> "array", a |-> sequence of values],                            *)
(*   [t |-> "cyclic", key |-> k, f |-> ...]: an object o that refers to    *)
(*   itself, o[k] === o, with its other fields in f.                       *)
(* A string carries its text s, a sequence of characters, and, in json,    *)
(* the value JSON.parse yields for that text (NoJson when JSON.parse       *)
(* throws).  The text of a JSON encoding is the one JSON.stringify prints,  *)
(* with the fields of an object in the order of KeyOrder.                  *)
(* The sample-data view (showSample), the status banner (statusMessage),   *)
(* the debug pane (lastRawResponse) and the selection, expansion and       *)
(* filter controls are display state and are not modelled.                 *)
(***************************************************************************)
EXTENDS Integers, Sequences, FiniteSets, TLC

\* ------------------------------------------------------------------------
\* JavaScript values
\* ------------------------------------------------------------------------
Undef == [t |-> "undefined"]
Null == [t |-> "null"]
NoJson == [t |-> "nojson"]
Bool(b) == [t |-> "boolean", b |-> b]
Num(n) == [t |-> "number", n |-> n]
\* a string whose text is not JSON
Text(s) == [t |-> "string", s |-> s, json |-> NoJson]
Obj(f) == [t |-> "object", f |-> f]
Arr(a) == [t |-> "array", a |-> a]
EmptyFields == [k \in {} |-> Null]
\* the object o with o[k] === o and the other fields f
Cyclic(k, f) == [t |-> "cyclic", key |-> k, f |-> f]

\* !v is false
Truthy(v) ==
    CASE v.t = "undefined" -> FALSE
      [] v.t = "null" -> FALSE
      [] v.t = "boolean" -> v.b
      [] v.t = "number" -> v.n # 0
      [] v.t = "string" -> v.s # <<>>
      [] OTHER -> TRUE

\* v == null (null or undefined)
Nullish(v) == v.t \in {"null", "undefined"}

\* typeof v === 'object' (arrays and null included)
TypeofObject(v) == v.t \in {"object", "array", "null", "cyclic"}

\* v?.k for a key k that no prototype defines
Get(v, k) ==
    IF v.t = "cyclic" /\ k = v.key THEN v
    ELSE IF v.t \in {"object", "cyclic"} /\ k \in DOMAIN v.f THEN v.f[k]
    ELSE Undef

\* a ?? b
Coalesce(a, b) == IF Nullish(a) THEN b ELSE a

\* ------------------------------------------------------------------------
\* extractAgentData
\* ------------------------------------------------------------------------
MaxSearchDepth == 6

\* mutant of wrapperKeys: response probed before result, data after message
wrapperKeysReordered ==
    <<"response", "result", "output", "content", "message", "data", "text",
      "raw_response">>

wrapperKeys ==
    <<"result", "response", "data", "output", "content", "message", "text",
      "raw_response">>

\* mutant of isMatch: the validatorKey test is left out
isMatchAnyObject(obj, validatorKey) ==
    ~(~Truthy(obj) \/ ~TypeofObject(obj) \/ obj.t = "array")

isMatch(obj, validatorKey) ==
    IF ~Truthy(obj) \/ ~TypeofObject(obj) \/ obj.t = "array" THEN FALSE
    ELSE validatorKey \in DOMAIN obj.f \/ (obj.t = "cyclic" /\ validatorKey = obj.key)

tryParse(str) ==
    IF str.t # "string" THEN Null
    ELSE IF str.json = NoJson THEN Null
    ELSE str.json

RECURSIVE deepSearch(_, _, _)
RECURSIVE searchWrapperKeys(_, _, _, _)

\* the for loop over keys, from position i on
searchWrapperKeys(obj, depth, validatorKey, keys) ==
    IF keys = <<>> THEN Null
    ELSE LET key == Head(keys)
             found == deepSearch(Get(obj, key), depth + 1, validatorKey)
         IN  IF ~Nullish(Get(obj, key)) /\ Truthy(found) THEN found
             ELSE searchWrapperKeys(obj, depth, validatorKey, Tail(keys))

\* mutant of deepSearch: the elements of an array are searched, in order
deepSearchIntoArrays(obj, depth, validatorKey) ==
    IF depth > MaxSearchDepth \/ ~Truthy(obj) THEN Null
    ELSE IF obj.t = "array" THEN
        LET hits == { i \in DOMAIN obj.a :
                        Truthy(deepSearch(obj.a[i], depth + 1, validatorKey)) }
        IN  IF hits = {} THEN Null
            ELSE deepSearch(obj.a[CHOOSE i \in hits : \A o \in hits : i <= o],
                            depth + 1, validatorKey)
    ELSE IF obj.t = "string" THEN
        LET parsed == tryParse(obj)
        IN  IF Truthy(parsed) /\ isMatch(parsed, validatorKey) THEN parsed
            ELSE IF Truthy(parsed) THEN deepSearch(parsed, depth + 1, validatorKey)
            ELSE Null
    ELSE IF ~TypeofObject(obj) THEN Null
    ELSE IF isMatch(obj, validatorKey) THEN obj
    ELSE searchWrapperKeys(obj, depth, validatorKey, wrapperKeys)

deepSearch(obj, depth, validatorKey) ==
    IF depth > MaxSearchDepth \/ ~Truthy(obj) THEN Null
    ELSE IF obj.t = "string" THEN
        LET parsed == tryParse(obj)
        IN  IF Truthy(parsed) /\ isMatch(parsed, validatorKey) THEN parsed
            ELSE IF Truthy(parsed) THEN deepSearch(parsed, depth + 1, validatorKey)
            ELSE Null
    ELSE IF ~TypeofObject(obj) THEN Null
    ELSE IF isMatch(obj, validatorKey) THEN obj
    ELSE searchWrapperKeys(obj, depth, validatorKey, wrapperKeys)

\* mutant of extractAgentData: Path 4 (raw_response) is left out, so that
\* raw_response is only reached by Path 5, after the other wrapper keys
extractAgentDataNoRawPath(result, validatorKey) ==
    IF ~Truthy(result) THEN Null
    ELSE
    LET directResult == Get(Get(result, "response"), "result")
        deepInResult == deepSearch(directResult, 0, validatorKey)
        fromResponse == deepSearch(Get(result, "response"), 0, validatorKey)
        fromTopLevel == deepSearch(result, 0, validatorKey)
    IN  IF isMatch(directResult, validatorKey) THEN directResult
        ELSE IF Truthy(deepInResult) THEN deepInResult
        ELSE IF Truthy(fromResponse) THEN fromResponse
        ELSE IF Truthy(fromTopLevel) THEN fromTopLevel
        ELSE Null

\* mutant of extractAgentData: Path 5 (the whole result) is left out
extractAgentDataNoTopLevel(result, validatorKey) ==
    IF ~Truthy(result) THEN Null
    ELSE
    LET directResult == Get(Get(result, "response"), "result")
        deepInResult == deepSearch(directResult, 0, validatorKey)
        fromResponse == deepSearch(Get(result, "response"), 0, validatorKey)
        fromRaw == IF Truthy(Get(result, "raw_response"))
                   THEN deepSearch(Get(result, "raw_response"), 0, validatorKey)
                   ELSE Null
    IN  IF isMatch(directResult, validatorKey) THEN directResult
        ELSE IF Truthy(deepInResult) THEN deepInResult
        ELSE IF Truthy(fromResponse) THEN fromResponse
        ELSE IF Truthy(fromRaw) THEN fromRaw
        ELSE Null

extractAgentData(result, validatorKey) ==
    IF ~Truthy(result) THEN Null
    ELSE
    LET directResult == Get(Get(result, "response"), "result")
        deepInResult == deepSearch(directResult, 0, validatorKey)
        fromResponse == deepSearch(Get(result, "response"), 0, validatorKey)
        fromRaw == IF Truthy(Get(result, "raw_response"))
                   THEN deepSearch(Get(result, "raw_response"), 0, validatorKey)
                   ELSE Null
        fromTopLevel == deepSearch(result, 0, validatorKey)
    IN  IF isMatch(directResult, validatorKey) THEN directResult
        ELSE IF Truthy(deepInResult) THEN deepInResult
        ELSE IF Truthy(fromResponse) THEN fromResponse
        ELSE IF Truthy(fromRaw) THEN fromRaw
        ELSE IF Truthy(fromTopLevel) THEN fromTopLevel
        ELSE Null

\* ------------------------------------------------------------------------
\* Strings
\* ------------------------------------------------------------------------
S_failed == <<"f", "a", "i", "l", "e", "d">>
S_hello == <<"h", "e", "l", "l", "o">>
S_completed == <<"c", "o", "m", "p", "l", "e", "t", "e", "d">>
Digits == <<"0", "1", "2", "3", "4", "5", "6", "7", "8", "9">>

RECURSIVE NumberText(_)
\* the decimal text of a natural number, as a template literal prints it
NumberText(n) ==
    IF n < 10 THEN <<Digits[n + 1]>>
    ELSE NumberText(n \div 10) \o <<Digits[(n % 10) + 1]>>

UpperCase == <<"A", "B", "C", "D", "E", "F", "G", "H", "I", "J", "K", "L", "M",
               "N", "O", "P", "Q", "R", "S", "T", "U", "V", "W", "X", "Y", "Z">>
LowerCase == <<"a", "b", "c", "d", "e", "f", "g", "h", "i", "j", "k", "l", "m",
               "n", "o", "p", "q", "r", "s", "t", "u", "v", "w", "x", "y", "z">>

LowerChar(c) ==
    IF \E i \in DOMAIN UpperCase : UpperCase[i] = c
    THEN LowerCase[CHOOSE i \in DOMAIN UpperCase : UpperCase[i] = c]
    ELSE c

\* s.toLowerCase()
toLowerCase(s) == [i \in DOMAIN s |-> LowerChar(s[i])]

\* s.includes(sub)
includes(s, sub) ==
    \E i \in 0..(Len(s) - Len(sub)) : SubSeq(s, i + 1, i + Len(sub)) = sub

\* mutant of sliceFromStart: the text is not cut
sliceFromStartWhole(s, n) == s

\* s.slice(0, n)
sliceFromStart(s, n) == IF Len(s) <= n THEN s ELSE SubSeq(s, 1, n)

\* a || b
OrElse(a, b) == IF Truthy(a) THEN a ELSE b

S_draft_ ==
    <<"d", "r", "a", "f", "t", "-">>

S_Untitled ==
    <<"U", "n", "t", "i", "t", "l", "e", "d">>

S_TECH_DEEP_DIVE ==
    <<"T", "E", "C", "H", " ", "D", "E", "E", "P", " ", "D", "I", "V", "E">>

S_now ==
    <<"<", "n", "o", "w", ">">>

S_NoStructuredPrefix ==
    <<"A", "g", "e", "n", "t", " ", "r", "e", "t", "u", "r", "n", "e", "d",
    " ", "d", "a", "t", "a", " ", "b", "u", "t", " ", "n", "o", " ", "s",
    "t", "r", "u", "c", "t", "u", "r", "e", "d", " ", "p", "i", "p", "e",
    "l", "i", "n", "e", " ", "r", "e", "s", "u", "l", "t", "s", " ", "w",
    "e", "r", "e", " ", "f", "o", "u", "n", "d", ".", " ", "R", "a", "w",
    ":", " ">>

S_UnknownErrorOccurred ==
    <<"U", "n", "k", "n", "o", "w", "n", " ", "e", "r", "r", "o", "r", " ",
    "o", "c", "c", "u", "r", "r", "e", "d">>

S_UnknownError ==
    <<"U", "n", "k", "n", "o", "w", "n", " ", "e", "r", "r", "o", "r">>

S_NetworkError ==
    <<"N", "e", "t", "w", "o", "r", "k", " ", "e", "r", "r", "o", "r">>

S_success ==
    <<"s", "u", "c", "c", "e", "s", "s">>

S_posted ==
    <<"p", "o", "s", "t", "e", "d">>

S_tweet ==
    <<"t", "w", "e", "e", "t">>

S_UnstructuredPrefix ==
    <<"U", "n", "s", "t", "r", "u", "c", "t", "u", "r", "e", "d", " ", "r",
    "e", "s", "p", "o", "n", "s", "e", ":", " ">>

S_objectObject ==
    <<"[", "o", "b", "j", "e", "c", "t", " ", "O", "b", "j", "e", "c", "t",
    "]">>

S_true ==
    <<"t", "r", "u", "e">>

S_false ==
    <<"f", "a", "l", "s", "e">>

S_null ==
    <<"n", "u", "l", "l">>

S_undefined ==
    <<"u", "n", "d", "e", "f", "i", "n", "e", "d">>

S_TypeErrorMessage ==
    <<"t", "o", "L", "o", "w", "e", "r", "C", "a", "s", "e", " ", "i", "s",
    " ", "n", "o", "t", " ", "a", " ", "f", "u", "n", "c", "t", "i", "o",
    "n">>

\* String(v) for the values a reply can hold
StringOf(v) ==
    CASE v.t = "string" -> v.s
      [] v.t = "number" -> NumberText(v.n)
      [] v.t = "boolean" -> IF v.b THEN S_true ELSE S_false
      [] v.t = "null" -> S_null
      [] v.t = "undefined" -> S_undefined
      [] OTHER -> S_objectObject

\* new Date().toISOString(): the time of the call, one opaque text
NowText == Text(S_now)

\* ------------------------------------------------------------------------
\* JSON.stringify: the text of a payload that arrives as stringified JSON
\* ------------------------------------------------------------------------
\* the field names of the payloads, in the order their fields are printed
KeyOrder ==
    <<"result", "response", "data", "output", "content", "message",
      "text", "raw_response", "items", "success", "error",
      "pipeline_status", "post_status", "hn_results", "arxiv_results",
      "thread_drafts", "stories", "papers", "total_fetched",
      "total_filtered", "total_drafts", "auto_approved",
      "flagged_for_review", "scan_timestamp", "id", "title",
      "classification", "thread_content", "hashtags", "hook",
      "requires_review", "review_reason", "source_url", "relevance_score",
      "tweet_url", "timestamp", "error_message">>

\* a field name as text
KeyText(k) ==
    CASE k = "result" -> <<"r", "e", "s", "u", "l", "t">>
      [] k = "response" -> <<"r", "e", "s", "p", "o", "n", "s", "e">>
      [] k = "data" -> <<"d", "a", "t", "a">>
      [] k = "output" -> <<"o", "u", "t", "p", "u", "t">>
      [] k = "content" -> <<"c", "o", "n", "t", "e", "n", "t">>
      [] k = "message" -> <<"m", "e", "s", "s", "a", "g", "e">>
      [] k = "text" -> <<"t", "e", "x", "t">>
      [] k = "raw_response" -> <<"r", "a", "w", "_", "r", "e", "s", "p", "o", "n", "s", "e">>
      [] k = "items" -> <<"i", "t", "e", "m", "s">>
      [] k = "success" -> <<"s", "u", "c", "c", "e", "s", "s">>
      [] k = "error" -> <<"e", "r", "r", "o", "r">>
      [] k = "pipeline_status" -> 
           <<"p", "i", "p", "e", "l", "i", "n", "e", "_", "s", "t", "a", "t", "u", "s">>
      [] k = "post_status" -> <<"p", "o", "s", "t", "_", "s", "t", "a", "t", "u", "s">>
      [] k = "hn_results" -> <<"h", "n", "_", "r", "e", "s", "u", "l", "t", "s">>
      [] k = "arxiv_results" -> <<"a", "r", "x", "i", "v", "_", "r", "e", "s", "u", "l", "t", "s">>
      [] k = "thread_drafts" -> <<"t", "h", "r", "e", "a", "d", "_", "d", "r", "a", "f", "t", "s">>
      [] k = "stories" -> <<"s", "t", "o", "r", "i", "e", "s">>
      [] k = "papers" -> <<"p", "a", "p", "e", "r", "s">>
      [] k = "total_fetched" -> <<"t", "o", "t", "a", "l", "_", "f", "e", "t", "c", "h", "e", "d">>
      [] k = "total_filtered" -> <<"t", "o", "t", "a", "l", "_", "f", "i", "l", "t", "e", "r", "e", "d">>
      [] k = "total_drafts" -> <<"t", "o", "t", "a", "l", "_", "d", "r", "a", "f", "t", "s">>
      [] k = "auto_approved" -> <<"a", "u", "t", "o", "_", "a", "p", "p", "r", "o", "v", "e", "d">>
      [] k = "flagged_for_review" -> 
           <<"f", "l", "a", "g", "g", "e", "d", "_", "f", "o", "r", "_", "r", "e", "v", "i", "e", "w">>
      [] k = "scan_timestamp" -> <<"s", "c", "a", "n", "_", "t", "i", "m", "e", "s", "t", "a", "m", "p">>
      [] k = "id" -> <<"i", "d">>
      [] k = "title" -> <<"t", "i", "t", "l", "e">>
      [] k = "classification" -> <<"c", "l", "a", "s", "s", "i", "f", "i", "c", "a", "t", "i", "o", "n">>
      [] k = "thread_content" -> <<"t", "h", "r", "e", "a", "d", "_", "c", "o", "n", "t", "e", "n", "t">>
      [] k = "hashtags" -> <<"h", "a", "s", "h", "t", "a", "g", "s">>
      [] k = "hook" -> <<"h", "o", "o", "k">>
      [] k = "requires_review" -> 
           <<"r", "e", "q", "u", "i", "r", "e", "s", "_", "r", "e", "v", "i", "e", "w">>
      [] k = "review_reason" -> <<"r", "e", "v", "i", "e", "w", "_", "r", "e", "a", "s", "o", "n">>
      [] k = "source_url" -> <<"s", "o", "u", "r", "c", "e", "_", "u", "r", "l">>
      [] k = "relevance_score" -> 
           <<"r", "e", "l", "e", "v", "a", "n", "c", "e", "_", "s", "c", "o", "r", "e">>
      [] k = "tweet_url" -> <<"t", "w", "e", "e", "t", "_", "u", "r", "l">>
      [] k = "timestamp" -> <<"t", "i", "m", "e", "s", "t", "a", "m", "p">>
      [] k = "error_message" -> <<"e", "r", "r", "o", "r", "_", "m", "e", "s", "s", "a", "g", "e">>

RECURSIVE escapeText(_)
\* the characters of a string between its quotes: " and \ get a backslash
escapeText(s) ==
    IF \A i \in DOMAIN s : s[i] \notin {"\"", "\\"} THEN s
    ELSE IF Len(s) = 1 THEN <<"\\", s[1]>>
    ELSE escapeText(SubSeq(s, 1, Len(s) \div 2))
         \o escapeText(SubSeq(s, (Len(s) \div 2) + 1, Len(s)))

RECURSIVE stringify(_)
RECURSIVE stringifyFields(_, _, _)
RECURSIVE stringifyItems(_)

\* the fields of f named in keys, comma-separated; a field that holds
\* undefined is left out (first tells whether no field was printed yet)
stringifyFields(f, keys, first) ==
    IF keys = <<>> THEN <<>>
    ELSE IF Head(keys) \notin DOMAIN f \/ f[Head(keys)].t = "undefined"
    THEN stringifyFields(f, Tail(keys), first)
    ELSE (IF first THEN <<>> ELSE <<",">>)
         \o <<"\"">> \o KeyText(Head(keys)) \o <<"\"", ":">>
         \o stringify(f[Head(keys)])
         \o stringifyFields(f, Tail(keys), FALSE)

\* the elements of an array, comma-separated
stringifyItems(a) ==
    IF a = <<>> THEN <<>>
    ELSE stringify(Head(a))
         \o (IF Tail(a) = <<>> THEN <<>> ELSE <<",">> \o stringifyItems(Tail(a)))

\* JSON.stringify(v) for a value other than undefined
stringify(v) ==
    CASE v.t = "null" -> S_null
      [] v.t = "boolean" -> IF v.b THEN S_true ELSE S_false
      [] v.t = "number" ->
            IF v.n < 0 THEN <<"-">> \o NumberText(0 - v.n) ELSE NumberText(v.n)
      [] v.t = "string" -> <<"\"">> \o escapeText(v.s) \o <<"\"">>
      [] v.t = "array" -> <<"[">> \o stringifyItems(v.a) \o <<"]">>
      [] v.t = "object" -> <<"{">> \o stringifyFields(v.f, KeyOrder, TRUE) \o <<"}">>
      [] OTHER -> S_null

\* the string JSON.stringify(v); JSON.parse gives v back
JsonStr(v) == [t |-> "string", s |-> stringify(v), json |-> v]

\* ------------------------------------------------------------------------
\* runScan: the check of the extracted data and the sanitizing (pure part)
\* ------------------------------------------------------------------------
IsArray(v) == v.t = "array"

\* mutant of hasPipelineData: the marker object alone is enough
hasPipelineDataMarkerOnly(responseData) == Truthy(responseData)

\* the condition of line 542
hasPipelineData(responseData) ==
    /\ Truthy(responseData)
    /\ \/ IsArray(Get(responseData, "thread_drafts"))
       \/ Truthy(Get(responseData, "hn_results"))
       \/ Truthy(Get(responseData, "arxiv_results"))

\* mutant of sanitizeDraft: a relevance_score that is there is kept, whatever
\* its type
sanitizeDraftScoreAsSent(d, idx) ==
    Obj(("id" :> Coalesce(Get(d, "id"), Text(S_draft_ \o NumberText(idx + 1))))
     @@ ("title" :> Coalesce(Get(d, "title"), Text(S_Untitled)))
     @@ ("classification" :> Coalesce(Get(d, "classification"), Text(S_TECH_DEEP_DIVE)))
     @@ ("thread_content" :> Coalesce(Get(d, "thread_content"), Text(<<>>)))
     @@ ("hashtags" :> Coalesce(Get(d, "hashtags"), Text(<<>>)))
     @@ ("hook" :> Coalesce(Get(d, "hook"), Text(<<>>)))
     @@ ("requires_review" :> Bool(Get(d, "requires_review") = Bool(TRUE)))
     @@ ("review_reason" :> Coalesce(Get(d, "review_reason"), Text(<<>>)))
     @@ ("source_url" :> Coalesce(Get(d, "source_url"), Text(<<>>)))
     @@ ("relevance_score" :> Coalesce(Get(d, "relevance_score"), Num(50))))

\* one element of thread_drafts.map; idx is the array index (from 0)
sanitizeDraft(d, idx) ==
    Obj(("id" :> Coalesce(Get(d, "id"), Text(S_draft_ \o NumberText(idx + 1))))
     @@ ("title" :> Coalesce(Get(d, "title"), Text(S_Untitled)))
     @@ ("classification" :> Coalesce(Get(d, "classification"), Text(S_TECH_DEEP_DIVE)))
     @@ ("thread_content" :> Coalesce(Get(d, "thread_content"), Text(<<>>)))
     @@ ("hashtags" :> Coalesce(Get(d, "hashtags"), Text(<<>>)))
     @@ ("hook" :> Coalesce(Get(d, "hook"), Text(<<>>)))
     @@ ("requires_review" :> Bool(Get(d, "requires_review") = Bool(TRUE)))
     @@ ("review_reason" :> Coalesce(Get(d, "review_reason"), Text(<<>>)))
     @@ ("source_url" :> Coalesce(Get(d, "source_url"), Text(<<>>)))
     @@ ("relevance_score" :> IF Get(d, "relevance_score").t = "number"
                              THEN Get(d, "relevance_score") ELSE Num(50)))

\* mutant of sanitizeSource: the collection is taken as the agent sent it
sanitizeSourceAsSent(src, listKey) ==
    Obj((listKey :> Get(src, listKey))
     @@ ("total_fetched" :> Coalesce(Get(src, "total_fetched"), Num(0)))
     @@ ("total_filtered" :> Coalesce(Get(src, "total_filtered"), Num(0))))

\* hn_results and arxiv_results of the object built at lines 544-572
sanitizeSource(src, listKey) ==
    Obj((listKey :> IF IsArray(Get(src, listKey)) THEN Get(src, listKey) ELSE Arr(<<>>))
     @@ ("total_fetched" :> Coalesce(Get(src, "total_fetched"), Num(0)))
     @@ ("total_filtered" :> Coalesce(Get(src, "total_filtered"), Num(0))))

\* mutant of sanitize: the elements of thread_drafts that are no objects are
\* left out
sanitizeSkipsMalformed(responseData) ==
    LET td == Get(responseData, "thread_drafts")
        kept == SelectSeq(td.a, LAMBDA d : d.t = "object")
    IN  Obj(("pipeline_status" :> Coalesce(Get(responseData, "pipeline_status"), Text(S_completed)))
         @@ ("hn_results" :> sanitizeSource(Get(responseData, "hn_results"), "stories"))
         @@ ("arxiv_results" :> sanitizeSource(Get(responseData, "arxiv_results"), "papers"))
         @@ ("thread_drafts" :>
                IF IsArray(td)
                THEN Arr([i \in 1..Len(kept) |-> sanitizeDraft(kept[i], i - 1)])
                ELSE Arr(<<>>))
         @@ ("total_drafts" :> Coalesce(Get(responseData, "total_drafts"),
                                        IF IsArray(td) THEN Num(Len(td.a)) ELSE Num(0)))
         @@ ("auto_approved" :> Coalesce(Get(responseData, "auto_approved"), Num(0)))
         @@ ("flagged_for_review" :> Coalesce(Get(responseData, "flagged_for_review"), Num(0)))
         @@ ("scan_timestamp" :> Coalesce(Get(responseData, "scan_timestamp"), NowText)))

\* the object built at lines 544-572
sanitize(responseData) ==
    LET td == Get(responseData, "thread_drafts")
    IN  Obj(("pipeline_status" :> Coalesce(Get(responseData, "pipeline_status"), Text(S_completed)))
         @@ ("hn_results" :> sanitizeSource(Get(responseData, "hn_results"), "stories"))
         @@ ("arxiv_results" :> sanitizeSource(Get(responseData, "arxiv_results"), "papers"))
         @@ ("thread_drafts" :>
                IF IsArray(td)
                THEN Arr([i \in 1..Len(td.a) |-> sanitizeDraft(td.a[i], i - 1)])
                ELSE Arr(<<>>))
         @@ ("total_drafts" :> Coalesce(Get(responseData, "total_drafts"),
                                        IF IsArray(td) THEN Num(Len(td.a)) ELSE Num(0)))
         @@ ("auto_approved" :> Coalesce(Get(responseData, "auto_approved"), Num(0)))
         @@ ("flagged_for_review" :> Coalesce(Get(responseData, "flagged_for_review"), Num(0)))
         @@ ("scan_timestamp" :> Coalesce(Get(responseData, "scan_timestamp"), NowText)))

S_CannotReadProperties ==
    <<"C", "a", "n", "n", "o", "t", " ", "r", "e", "a", "d", " ", "p", "r",
    "o", "p", "e", "r", "t", "i", "e", "s">>

\* a property read without ?. at lines 545-566 meets null or undefined and
\* throws a TypeError: responseData.pipeline_status (545),
\* responseData.hn_results.stories (547), responseData.arxiv_results.papers
\* (552), d.relevance_score (566)
sanitizeThrows(responseData) ==
    LET hn == Get(responseData, "hn_results")
        arxiv == Get(responseData, "arxiv_results")
        td == Get(responseData, "thread_drafts")
    IN  \/ Nullish(responseData)
        \/ IsArray(Get(hn, "stories")) /\ Nullish(hn)
        \/ IsArray(Get(arxiv, "papers")) /\ Nullish(arxiv)
        \/ /\ IsArray(td)
           /\ \E i \in DOMAIN td.a :
                  Get(td.a[i], "relevance_score").t = "number" /\ Nullish(td.a[i])

\* d.relevance_score >= threshold, for the numbers of the model
scoreAtLeast(score, threshold) == score.t = "number" /\ score.n >= threshold

\* the set built at lines 580-585
autoApprovedIds(sanitized, threshold) ==
    LET td == sanitized.f["thread_drafts"].a
    IN  { td[i].f["id"] : i \in { j \in DOMAIN td :
                                    /\ ~Truthy(td[j].f["requires_review"])
                                    /\ scoreAtLeast(td[j].f["relevance_score"], threshold) } }

\* rawText of lines 589-592
scanRawText(result) ==
    LET message == Get(Get(result, "response"), "message")
        res == Get(Get(result, "response"), "result")
    IN  IF message.t = "string" THEN message.s
        ELSE IF res.t = "string" THEN res.s
        ELSE IF Get(res, "text").t = "string" THEN Get(res, "text").s
        ELSE <<>>

ExcerptLength == 300

\* mutant of callerError: the message of the response is passed over
callerErrorSkipsMessage(result, fallback) ==
    Coalesce(Get(result, "error"), Text(fallback))

\* result?.error ?? result?.response?.message ?? fallback (lines 599, 665)
callerError(result, fallback) ==
    Coalesce(Coalesce(Get(result, "error"), Get(Get(result, "response"), "message")),
             Text(fallback))

\* err instanceof Error ? err.message : 'Network error' (lines 607, 671)
thrownMessage(err) == IF err.t = "error" THEN err.message ELSE Text(S_NetworkError)

ErrorOf(message) == [t |-> "error", message |-> message]

\* ------------------------------------------------------------------------
\* The Agent Caller: what callAIAgent can hand back
\* ------------------------------------------------------------------------
MANAGER_AGENT_ID == "69995e040ab3a50ca24853ef"
TWITTER_AGENT_ID == "69995e05746ef9435cac7e1d"

S_x == <<"X">>
S_y == <<"Y">>
S_draft1 == <<"d", "r", "a", "f", "t", "-", "1">>
S_boom == <<"b", "o", "o", "m">>
S_url == <<"h", "t", "t", "p", "s", ":", "/", "/", "x", ".", "c", "o", "m", "/", "1">>
S_t1 == <<"T", "1">>
S_Success == <<"S", "u", "c", "c", "e", "s", "s">>

Returned(value) == [kind |-> "returned", value |-> value]
Thrown(err) == [kind |-> "thrown", err |-> err]

Envelope(success, response) == Obj(("success" :> Bool(success)) @@ ("response" :> response))

\* two drafts without ids: one of score 80, one flagged for review
ManagerTwoDrafts ==
    Obj(("pipeline_status" :> Text(S_completed))
     @@ ("thread_drafts" :> Arr(<<
            Obj(("title" :> Text(S_x)) @@ ("relevance_score" :> Num(80))),
            Obj(("title" :> Text(S_x)) @@ ("relevance_score" :> Num(95))
                @@ ("requires_review" :> Bool(TRUE)))>>)))

\* two drafts that end up with the same id: the first has none, the second
\* is named draft-1 upstream and is flagged for review
ManagerSameIds ==
    Obj(("pipeline_status" :> Text(S_completed))
     @@ ("thread_drafts" :> Arr(<<
            Obj(("title" :> Text(S_y)) @@ ("relevance_score" :> Num(90))),
            Obj(("title" :> Text(S_y)) @@ ("id" :> Text(S_draft1))
                @@ ("requires_review" :> Bool(TRUE)))>>)))

ScanOutcomes ==
    { Returned(Envelope(TRUE, Obj("result" :> ManagerTwoDrafts))),
      Returned(Envelope(TRUE, Obj("message" :> JsonStr(ManagerSameIds)))),
      Returned(Envelope(TRUE, Obj("message" :> Text(S_hello)))),
      Returned(Obj(("success" :> Bool(FALSE)) @@ ("error" :> Text(S_boom)))),
      Thrown(ErrorOf(Text(S_boom))) }

PublishOutcomes ==
    { Returned(Envelope(TRUE, Obj("result" :>
          Obj(("post_status" :> Text(S_Success)) @@ ("tweet_url" :> Text(S_url))
              @@ ("timestamp" :> Text(S_t1)))))),
      Returned(Envelope(TRUE, Obj("result" :> Obj("post_status" :> Num(500))))),
      Thrown(ErrorOf(Text(S_boom))) }

\* settings.autoApproveThreshold: the values the slider is moved between
ThresholdChoices == {75, 85}

\* ------------------------------------------------------------------------
\* publishThread and publishAllApproved (pure parts)
\* ------------------------------------------------------------------------
NoAgent == "null"

\* draft?.id ?? ''
draftIdOf(draft) == Coalesce(Get(draft, "id"), Text(<<>>))

\* the publisher state the handlers write:
\* [history |-> publishHistory, ids |-> publishingIds, agent |-> activeAgentId]
postingRecord(draft) ==
    [draftId |-> draftIdOf(draft),
     title |-> Coalesce(Get(draft, "title"), Text(S_Untitled)),
     status |-> "posting",
     tweetUrl |-> Text(<<>>),
     timestamp |-> Text(<<>>),
     errorMessage |-> Text(<<>>)]

\* mutant of withoutRecord: the earlier record of the id is kept
withoutRecordKeepsAll(history, draftId) == history

\* prev.filter(p => p.draftId !== draftId)
withoutRecord(history, draftId) ==
    SelectSeq(history, LAMBDA p : p.draftId # draftId)

\* mutant of publishStart: an earlier record of the id is marked posting
\* again instead of being replaced by a fresh one
publishStartRemarks(ps, draft) ==
    [history |->
        IF \E i \in DOMAIN ps.history : ps.history[i].draftId = draftIdOf(draft)
        THEN [i \in DOMAIN ps.history |->
                IF ps.history[i].draftId = draftIdOf(draft)
                THEN [ps.history[i] EXCEPT !.status = "posting"]
                ELSE ps.history[i]]
        ELSE ps.history \o <<postingRecord(draft)>>,
     ids |-> ps.ids \cup {draftIdOf(draft)},
     agent |-> TWITTER_AGENT_ID]

\* lines 619-624: publishThread up to the call of the agent
publishStart(ps, draft) ==
    [history |-> withoutRecord(ps.history, draftIdOf(draft)) \o <<postingRecord(draft)>>,
     ids |-> ps.ids \cup {draftIdOf(draft)},
     agent |-> TWITTER_AGENT_ID]

failedRecord(p, message) == [p EXCEPT !.status = "failed", !.errorMessage = message]

\* mutant of structuredRecord: the TypeError of a post_status that is not a
\* string is not caught, and the record stays as it is
structuredRecordUncaught(p, twitterData) ==
    LET post_status == Coalesce(Get(twitterData, "post_status"), Text(<<>>))
    IN  IF post_status.t # "string"
        THEN p
        ELSE [p EXCEPT
                !.status = IF toLowerCase(post_status.s) = S_success
                           THEN "success" ELSE "failed",
                !.tweetUrl = Coalesce(Get(twitterData, "tweet_url"), Text(<<>>)),
                !.timestamp = Coalesce(Get(twitterData, "timestamp"), NowText),
                !.errorMessage = Coalesce(Get(twitterData, "error_message"), Text(<<>>))]

\* lines 634-640: a structured reply
structuredRecord(p, twitterData) ==
    LET post_status == Coalesce(Get(twitterData, "post_status"), Text(<<>>))
    IN  IF post_status.t # "string"
        THEN \* toLowerCase is not a function: the TypeError lands in catch
             failedRecord(p, thrownMessage(ErrorOf(Text(S_TypeErrorMessage))))
        ELSE [p EXCEPT
                !.status = IF toLowerCase(post_status.s) = S_success
                           THEN "success" ELSE "failed",
                !.tweetUrl = Coalesce(Get(twitterData, "tweet_url"), Text(<<>>)),
                !.timestamp = Coalesce(Get(twitterData, "timestamp"), NowText),
                !.errorMessage = Coalesce(Get(twitterData, "error_message"), Text(<<>>))]

UnstructuredLength == 200

\* mutant of unstructuredRecord: the keywords are looked for in the text as
\* it came, without toLowerCase
unstructuredRecordCaseSensitive(p, result) ==
    LET res == Get(Get(result, "response"), "result")
        msgText == OrElse(Get(Get(result, "response"), "message"),
                          OrElse(Get(res, "text"),
                                 OrElse(Get(res, "message"), Text(<<>>))))
        looksSuccessful ==
            /\ msgText.t = "string"
            /\ \/ includes(msgText.s, S_posted)
               \/ includes(msgText.s, S_tweet)
               \/ includes(msgText.s, S_success)
    IN  [p EXCEPT
            !.status = IF looksSuccessful THEN "success" ELSE "failed",
            !.tweetUrl = Text(<<>>),
            !.timestamp = NowText,
            !.errorMessage =
                IF looksSuccessful THEN Text(<<>>)
                ELSE Text(S_UnstructuredPrefix
                          \o sliceFromStart(StringOf(msgText), UnstructuredLength))]

\* lines 649-655: a reply without structure
unstructuredRecord(p, result) ==
    LET res == Get(Get(result, "response"), "result")
        msgText == OrElse(Get(Get(result, "response"), "message"),
                          OrElse(Get(res, "text"),
                                 OrElse(Get(res, "message"), Text(<<>>))))
        looksSuccessful ==
            /\ msgText.t = "string"
            /\ \/ includes(toLowerCase(msgText.s), S_posted)
               \/ includes(toLowerCase(msgText.s), S_tweet)
               \/ includes(toLowerCase(msgText.s), S_success)
    IN  [p EXCEPT
            !.status = IF looksSuccessful THEN "success" ELSE "failed",
            !.tweetUrl = Text(<<>>),
            !.timestamp = NowText,
            !.errorMessage =
                IF looksSuccessful THEN Text(<<>>)
                ELSE Text(S_UnstructuredPrefix
                          \o sliceFromStart(StringOf(msgText), UnstructuredLength))]

\* what lines 630-678 make of the record of the draft
recordAfter(p, outcome) ==
    IF outcome.kind = "thrown" THEN failedRecord(p, thrownMessage(outcome.err))
    ELSE IF Truthy(Get(outcome.value, "success"))
    THEN LET twitterData == extractAgentData(outcome.value, "post_status")
         IN  IF Truthy(twitterData) THEN structuredRecord(p, twitterData)
             ELSE unstructuredRecord(p, outcome.value)
    ELSE failedRecord(p, callerError(outcome.value, S_UnknownError))

\* mutant of publishFinish: the outcome is written to every record
publishFinishEveryRecord(ps, draftId, outcome) ==
    [history |-> [i \in DOMAIN ps.history |-> recordAfter(ps.history[i], outcome)],
     ids |-> ps.ids \ {draftId},
     agent |-> NoAgent]

\* lines 630-685: publishThread from the return of the agent on
publishFinish(ps, draftId, outcome) ==
    [history |-> [i \in DOMAIN ps.history |->
                    IF ps.history[i].draftId = draftId
                    THEN recordAfter(ps.history[i], outcome)
                    ELSE ps.history[i]],
     ids |-> ps.ids \ {draftId},
     agent |-> NoAgent]

\* publishHistory.find(p => p.draftId === id && p.status === 'success')
hasSuccess(history, draftId) ==
    \E i \in DOMAIN history :
        history[i].draftId = draftId /\ history[i].status = "success"

\* the loop of publishAllApproved passes over a draft without a call of
\* the agent: a success record in the history it holds (line 691), or an
\* empty id, on which publishThread returns at once (line 617)
skipsDraft(history, draft) ==
    hasSuccess(history, draftIdOf(draft)) \/ ~Truthy(draftIdOf(draft))

RECURSIVE nextToPublish(_, _)
\* the drafts of the loop from the first one the agent is called for
nextToPublish(queue, history) ==
    IF queue = <<>> THEN <<>>
    ELSE IF skipsDraft(history, Head(queue).d) THEN nextToPublish(Tail(queue), history)
    ELSE queue

\* ------------------------------------------------------------------------
\* runScan from the return of the agent on (pure part)
\* ------------------------------------------------------------------------
\* cur and the result: [status, step, data, error, approved]
\* mutant of approvedAfterScan: the ids approved before the scan stay
approvedAfterScanKeepsPrevious(previous, autoApproved) == previous \cup autoApproved

\* line 585: setApprovedDraftIds(autoApproved)
approvedAfterScan(previous, autoApproved) == autoApproved

\* mutant of scanFinish: a thrown exception drops the stored result and the
\* approvals
scanFinishDropsOnThrow(cur, outcome, threshold) ==
    IF outcome.kind = "thrown"
    THEN [cur EXCEPT !.status = "failed", !.error = thrownMessage(outcome.err),
                     !.data = Null, !.approved = {}]
    ELSE IF Truthy(Get(outcome.value, "success"))
    THEN LET responseData == extractAgentData(outcome.value, "pipeline_status")
             sanitized == sanitize(responseData)
         IN  IF hasPipelineData(responseData) /\ sanitizeThrows(responseData)
             THEN [cur EXCEPT
                     !.status = "failed",
                     !.error = thrownMessage(ErrorOf(Text(S_CannotReadProperties)))]
             ELSE IF hasPipelineData(responseData)
             THEN [status |-> "completed",
                   step |-> 5,
                   data |-> sanitized,
                   error |-> cur.error,
                   approved |-> approvedAfterScan(cur.approved,
                                                 autoApprovedIds(sanitized, threshold))]
             ELSE [cur EXCEPT
                     !.status = "failed",
                     !.error = Text(S_NoStructuredPrefix
                                    \o sliceFromStart(scanRawText(outcome.value),
                                                      ExcerptLength))]
    ELSE [cur EXCEPT !.status = "failed",
                     !.error = callerError(outcome.value, S_UnknownErrorOccurred)]

\* lines 525-610: what runScan makes of the scan state once the call is over
scanFinish(cur, outcome, threshold) ==
    IF outcome.kind = "thrown"
    THEN [cur EXCEPT !.status = "failed", !.error = thrownMessage(outcome.err)]
    ELSE IF Truthy(Get(outcome.value, "success"))
    THEN LET responseData == extractAgentData(outcome.value, "pipeline_status")
             sanitized == sanitize(responseData)
         IN  IF hasPipelineData(responseData) /\ sanitizeThrows(responseData)
             THEN [cur EXCEPT
                     !.status = "failed",
                     !.error = thrownMessage(ErrorOf(Text(S_CannotReadProperties)))]
             ELSE IF hasPipelineData(responseData)
             THEN [status |-> "completed",
                   step |-> 5,
                   data |-> sanitized,
                   error |-> cur.error,
                   approved |-> approvedAfterScan(cur.approved,
                                                 autoApprovedIds(sanitized, threshold))]
             ELSE [cur EXCEPT
                     !.status = "failed",
                     !.error = Text(S_NoStructuredPrefix
                                    \o sliceFromStart(scanRawText(outcome.value),
                                                      ExcerptLength))]
    ELSE [cur EXCEPT !.status = "failed",
                     !.error = callerError(outcome.value, S_UnknownErrorOccurred)]

\* ------------------------------------------------------------------------
\* State
\* ------------------------------------------------------------------------
VARIABLES
    xEnv,      \* extractAgentData: the envelope passed as result
    xKey,      \* extractAgentData: the validatorKey
    xOut,      \* what extractAgentData(xEnv, xKey) returned (NotRun before)
    xAgain,    \* what extractAgentData(xOut, xKey) returned (NotRun before)
    xWraps,    \* number of wrapping steps that built xEnv
    xSibling,  \* TRUE once a second field was put beside a wrapped value
    rKind,     \* replies: "scan" or "publish", the handler the reply goes to,
               \* "scanError" or "publishError" when the call fails
    rReply,    \* replies: the object the agent answers with
    rOut,      \* replies: NotRun, or what the handler got (env, or outcome
               \* for a call that fails) and what it made of it
    scanStatus,            \* line 439
    scanStep,              \* line 440
    scanData,              \* line 441
    scanError,             \* line 442
    activeAgentId,         \* line 443
    approvedDraftIds,      \* line 449
    publishHistory,        \* line 456
    publishingIds,         \* line 457
    autoApproveThreshold,  \* line 460: settings.autoApproveThreshold
    scanCalls,   \* the runScan calls that wait for the manager agent, each
                 \* with the threshold it holds and the number of the scan
    stepTimers,  \* the setTimeout callbacks of lines 519-521 that are still
                 \* pending: [scan |-> number of the scan, step |-> 2, 3 or 4]
    postCalls,   \* the publishThread calls started by Post to Twitter that
                 \* wait for the agent, each with its draft
    bulkRuns,    \* the publishAllApproved loops that wait for the agent
    approvedBefore,  \* approvedDraftIds as it was when the last completed
                     \* scan replaced it
    submitted,   \* positions in drafts of the drafts of the current scan
                 \* result that were passed to publishThread
    scansStarted,     \* number of calls of the manager agent so far
    publishesStarted  \* number of calls of the publisher agent so far

xvars == <<xEnv, xKey, xOut, xAgain, xWraps, xSibling>>

mvars == <<scanStatus, scanStep, scanData, scanError, activeAgentId,
           approvedDraftIds, publishHistory, publishingIds, autoApproveThreshold,
           scanCalls, stepTimers, postCalls, bulkRuns, approvedBefore, submitted,
           scansStarted, publishesStarted>>

rvars == <<rKind, rReply, rOut>>

vars == <<xvars, rvars, mvars>>

\* ------------------------------------------------------------------------
\* Envelopes for extractAgentData: built from a seed by wrapping
\* ------------------------------------------------------------------------
MaxWraps == 3

NotRun == [t |-> "notrun"]


MarkerKeys == {"pipeline_status", "post_status"}

\* the keys a wrapping step uses: wrapper keys the call site treats
\* differently (result, response, raw_response), one it does not (data)
\* and one that deepSearch does not probe (items)
BuildKeys == {"result", "response", "data", "raw_response", "items"}

MarkerObjA(key) == Obj(key :> Text(S_completed))
MarkerObjB(key) == Obj(key :> Text(S_failed))

EnvSeeds(key) == {Text(S_hello), Num(0), MarkerObjA(key), MarkerObjB(key)}

SiblingValues(key) == {Text(S_hello), MarkerObjB(key)}

XInit ==
    /\ xKey \in MarkerKeys
    /\ xEnv \in EnvSeeds(xKey)
    /\ xOut = NotRun
    /\ xAgain = NotRun
    /\ xWraps = 0
    /\ xSibling = FALSE

\* { k: xEnv }
XWrapKey(k) ==
    /\ xOut = NotRun
    /\ xWraps < MaxWraps
    /\ xEnv' = Obj(k :> xEnv)
    /\ xWraps' = xWraps + 1
    /\ UNCHANGED <<xKey, xOut, xAgain, xSibling, rvars, mvars>>

\* JSON.stringify(xEnv)
XStringify ==
    /\ xOut = NotRun
    /\ xWraps < MaxWraps
    /\ xEnv' = JsonStr(xEnv)
    /\ xWraps' = xWraps + 1
    /\ UNCHANGED <<xKey, xOut, xAgain, xSibling, rvars, mvars>>

\* [ xEnv ]
XWrapArray ==
    /\ xOut = NotRun
    /\ xWraps < MaxWraps
    /\ xEnv' = Arr(<<xEnv>>)
    /\ xWraps' = xWraps + 1
    /\ UNCHANGED <<xKey, xOut, xAgain, xSibling, rvars, mvars>>

\* { ...xEnv, k: v }
XAddField(k, v) ==
    /\ xOut = NotRun
    /\ ~xSibling
    /\ xEnv.t = "object"
    /\ k \notin DOMAIN xEnv.f
    /\ xEnv' = Obj(xEnv.f @@ (k :> v))
    /\ xSibling' = TRUE
    /\ UNCHANGED <<xKey, xOut, xAgain, xWraps, rvars, mvars>>

XExtract ==
    /\ xOut = NotRun
    /\ xOut' = extractAgentData(xEnv, xKey)
    /\ UNCHANGED <<xEnv, xKey, xAgain, xWraps, xSibling, rvars, mvars>>

\* the output of the first call passed as the envelope of a second
XExtractAgain ==
    /\ xOut # NotRun
    /\ xOut # Null
    /\ xAgain = NotRun
    /\ xAgain' = extractAgentData(xOut, xKey)
    /\ UNCHANGED <<xEnv, xKey, xOut, xWraps, xSibling, rvars, mvars>>

XNext ==
    \/ \E k \in BuildKeys : XWrapKey(k)
    \/ XStringify
    \/ XWrapArray
    \/ \E k \in BuildKeys \cup {xKey} : \E v \in SiblingValues(xKey) : XAddField(k, v)
    \/ XExtract
    \/ XExtractAgain

\* ------------------------------------------------------------------------
\* Deep envelopes for extractAgentData: a seed under a chain of wrapper keys
\* and JSON encodings that is longer than the search goes
\* ------------------------------------------------------------------------
\* levels of wrapping of a deep envelope
MaxNesting == 8

\* JSON encodings inside one another in a deep envelope
MaxEmbeddings == 2

\* the wrapper keys of a chain: one the call site treats as any other (data)
\* and one it starts a search of its own from (response)
NestKeys == {"data", "response"}

\* a marker object, a text, an object that is its own data field, and an
\* object that is its own result field and holds a marker object as data
DeepSeeds(key) ==
    { MarkerObjA(key), Text(S_hello), Cyclic("data", EmptyFields),
      Cyclic("result", "data" :> MarkerObjA(key)) }

RECURSIVE HasCycle(_)
\* v holds an object that refers to itself: JSON.stringify(v) throws
HasCycle(v) ==
    CASE v.t = "cyclic" -> TRUE
      [] v.t = "object" -> \E k \in DOMAIN v.f : HasCycle(v.f[k])
      [] v.t = "array" -> \E i \in DOMAIN v.a : HasCycle(v.a[i])
      [] OTHER -> FALSE

RECURSIVE EmbedDepth(_)
\* the number of JSON encodings inside one another in v
EmbedDepth(v) ==
    CASE v.t = "string" -> IF v.json = NoJson THEN 0 ELSE 1 + EmbedDepth(v.json)
      [] v.t = "object" ->
            LET below == { EmbedDepth(v.f[k]) : k \in DOMAIN v.f }
            IN  IF below = {} THEN 0
                ELSE CHOOSE m \in below : \A o \in below : o <= m
      [] OTHER -> 0

DInit ==
    /\ xKey \in MarkerKeys
    /\ xEnv \in DeepSeeds(xKey)
    /\ xOut = NotRun
    /\ xAgain = NotRun
    /\ xWraps = 0
    /\ xSibling = FALSE

\* { k: xEnv }, for chains up to MaxNesting
XNest(k) ==
    /\ xOut = NotRun
    /\ xWraps < MaxNesting
    /\ xEnv' = Obj(k :> xEnv)
    /\ xWraps' = xWraps + 1
    /\ UNCHANGED <<xKey, xOut, xAgain, xSibling, rvars, mvars>>

\* JSON.stringify(xEnv), for chains up to MaxNesting
XEmbed ==
    /\ xOut = NotRun
    /\ xWraps < MaxNesting
    /\ ~HasCycle(xEnv)
    /\ EmbedDepth(xEnv) < MaxEmbeddings
    /\ xEnv' = JsonStr(xEnv)
    /\ xWraps' = xWraps + 1
    /\ UNCHANGED <<xKey, xOut, xAgain, xSibling, rvars, mvars>>

DNext ==
    \/ \E k \in NestKeys : XNest(k)
    \/ XEmbed
    \/ XExtract


\* ------------------------------------------------------------------------
\* Page: state, derived values and handlers
\* ------------------------------------------------------------------------
DefaultAutoApproveThreshold == 75

\* calls of the agents (scans and publishes together) the user starts in
\* one run of the page; a Post All Approved loop that has started goes
\* through its drafts whatever the count
MaxAgentCalls == 5

\* scans among them
MaxScans == 2

RemoveAt(seq, i) == SubSeq(seq, 1, i - 1) \o SubSeq(seq, i + 1, Len(seq))

\* line 487 (without the sample view: data is scanData)
drafts ==
    IF IsArray(Get(scanData, "thread_drafts")) THEN Get(scanData, "thread_drafts").a
    ELSE <<>>

\* line 508; each draft d goes with ix, its position in drafts, which the
\* code does not hold: it tells the drafts of one result apart
approvedDrafts ==
    SelectSeq([i \in DOMAIN drafts |-> [d |-> drafts[i], ix |-> i]],
              LAMBDA e : draftIdOf(e.d) \in approvedDraftIds)

\* lines 519-521: the three step timers a scan sets
setTimeouts(n) == { [scan |-> n, step |-> step] : step \in {2, 3, 4} }

\* mutant of clearTimeouts: the timers are left pending
clearTimeoutsNone(timers, n) == timers

\* lines 527-529 and 603-605: clearTimeout on the three timers of scan n
clearTimeouts(timers, n) == { t \in timers : t.scan # n }

\* mutant of scanControlDisabled: the button is never disabled
scanControlAlwaysEnabled == FALSE

\* line 818
scanControlDisabled == scanStatus = "scanning"

\* line 1364
postControlDisabled(draftId) == draftId \in publishingIds

\* line 1307
postAllControlDisabled == publishingIds # {}

publisherState ==
    [history |-> publishHistory, ids |-> publishingIds, agent |-> activeAgentId]

SetPublisherState(ps) ==
    /\ publishHistory' = ps.history
    /\ publishingIds' = ps.ids
    /\ activeAgentId' = ps.agent

\* a draft held by a handler that is still running is no longer a draft of
\* the current result once a scan has completed
Outdated(e) == [e EXCEPT !.ix = 0]

MInit ==
    /\ scanStatus = "idle"
    /\ scanStep = 0
    /\ scanData = Null
    /\ scanError = Null
    /\ activeAgentId = NoAgent
    /\ approvedDraftIds = {}
    /\ publishHistory = <<>>
    /\ publishingIds = {}
    /\ autoApproveThreshold = DefaultAutoApproveThreshold
    /\ scanCalls = <<>>
    /\ stepTimers = {}
    /\ postCalls = <<>>
    /\ bulkRuns = <<>>
    /\ approvedBefore = {}
    /\ submitted = {}
    /\ scansStarted = 0
    /\ publishesStarted = 0

\* mutant of RunScan: the result of the previous scan is dropped when a
\* scan starts
RunScanClearsData ==
    /\ ~scanControlDisabled
    /\ scansStarted < MaxScans
    /\ scansStarted + publishesStarted < MaxAgentCalls
    /\ scansStarted' = scansStarted + 1
    /\ scanStatus' = "scanning"
    /\ scanStep' = 1
    /\ scanError' = Null
    /\ scanData' = Null
    /\ activeAgentId' = MANAGER_AGENT_ID
    /\ scanCalls' = Append(scanCalls,
                           [threshold |-> autoApproveThreshold, scan |-> scansStarted + 1])
    /\ stepTimers' = stepTimers \cup setTimeouts(scansStarted + 1)
    /\ UNCHANGED <<xvars, rvars, approvedBefore, approvedDraftIds, publishHistory, publishingIds,
                   autoApproveThreshold, postCalls, bulkRuns, submitted,
                   publishesStarted>>

\* mutant of RunScan: the error of the previous scan is not cleared
RunScanKeepsError ==
    /\ ~scanControlDisabled
    /\ scansStarted < MaxScans
    /\ scansStarted + publishesStarted < MaxAgentCalls
    /\ scansStarted' = scansStarted + 1
    /\ scanStatus' = "scanning"
    /\ scanStep' = 1
    /\ scanError' = scanError
    /\ activeAgentId' = MANAGER_AGENT_ID
    /\ scanCalls' = Append(scanCalls,
                           [threshold |-> autoApproveThreshold, scan |-> scansStarted + 1])
    /\ stepTimers' = stepTimers \cup setTimeouts(scansStarted + 1)
    /\ UNCHANGED <<xvars, rvars, approvedBefore, scanData, approvedDraftIds, publishHistory, publishingIds,
                   autoApproveThreshold, postCalls, bulkRuns, submitted,
                   publishesStarted>>

\* lines 511-525: runScan up to the call of the manager agent
RunScan ==
    /\ ~scanControlDisabled
    /\ scansStarted < MaxScans
    /\ scansStarted + publishesStarted < MaxAgentCalls
    /\ scansStarted' = scansStarted + 1
    /\ scanStatus' = "scanning"
    /\ scanStep' = 1
    /\ scanError' = Null
    /\ activeAgentId' = MANAGER_AGENT_ID
    /\ scanCalls' = Append(scanCalls,
                           [threshold |-> autoApproveThreshold, scan |-> scansStarted + 1])
    /\ stepTimers' = stepTimers \cup setTimeouts(scansStarted + 1)
    /\ UNCHANGED <<xvars, rvars, approvedBefore, scanData, approvedDraftIds, publishHistory, publishingIds,
                   autoApproveThreshold, postCalls, bulkRuns, submitted,
                   publishesStarted>>

\* mutant of StepTimer: the pending timers of a scan fire in any order
StepTimerAnyOrder(n) ==
    LET pending == { t \in stepTimers : t.scan = n }
    IN  /\ pending # {}
        /\ \E next \in pending :
               /\ scanStep' = next.step
               /\ stepTimers' = stepTimers \ {next}
        /\ UNCHANGED <<xvars, rvars, approvedBefore, scanStatus, scanData, scanError,
                       activeAgentId, approvedDraftIds, publishHistory, publishingIds,
                       autoApproveThreshold, scanCalls, postCalls, bulkRuns, submitted,
                       scansStarted, publishesStarted>>

\* lines 519-521: the next pending step timer of scan n fires (the timers
\* of one scan fire in the order of their delays)
StepTimer(n) ==
    LET pending == { t \in stepTimers : t.scan = n }
        next == CHOOSE t \in pending : \A o \in pending : t.step <= o.step
    IN  /\ pending # {}
        /\ scanStep' = next.step
        /\ stepTimers' = stepTimers \ {next}
        /\ UNCHANGED <<xvars, rvars, approvedBefore, scanStatus, scanData, scanError,
                       activeAgentId, approvedDraftIds, publishHistory, publishingIds,
                       autoApproveThreshold, scanCalls, postCalls, bulkRuns, submitted,
                       scansStarted, publishesStarted>>

\* lines 525-611: the manager agent returned or threw
ScanReturns(c, outcome) ==
    LET after == scanFinish([status |-> scanStatus, step |-> scanStep,
                             data |-> scanData, error |-> scanError,
                             approved |-> approvedDraftIds],
                            outcome, scanCalls[c].threshold)
    IN  /\ scanStatus' = after.status
        /\ scanStep' = after.step
        /\ scanData' = after.data
        /\ scanError' = after.error
        /\ approvedDraftIds' = after.approved
        /\ activeAgentId' = NoAgent
        /\ scanCalls' = RemoveAt(scanCalls, c)
        /\ stepTimers' = clearTimeouts(stepTimers, scanCalls[c].scan)
        /\ IF after.status = "completed"
           THEN /\ approvedBefore' = approvedDraftIds
                /\ submitted' = {}
                /\ postCalls' = [i \in DOMAIN postCalls |-> Outdated(postCalls[i])]
                /\ bulkRuns' = [i \in DOMAIN bulkRuns |->
                                  [bulkRuns[i] EXCEPT
                                     !.current = Outdated(@),
                                     !.rest = [j \in DOMAIN @ |-> Outdated(@[j])]]]
           ELSE UNCHANGED <<approvedBefore, submitted, postCalls, bulkRuns>>
        /\ UNCHANGED <<xvars, rvars, publishHistory, publishingIds, autoApproveThreshold,
                   scansStarted, publishesStarted>>

\* line 1525: the auto-approve slider
SetAutoApproveThreshold(t) ==
    /\ t # autoApproveThreshold
    /\ autoApproveThreshold' = t
    /\ UNCHANGED <<xvars, rvars, approvedBefore, stepTimers, scanStatus, scanStep, scanData, scanError, activeAgentId,
                   approvedDraftIds, publishHistory, publishingIds, scanCalls,
                   postCalls, bulkRuns, submitted,
                   scansStarted, publishesStarted>>

\* lines 1231-1243: Approve on the card of draft i
Approve(i) ==
    /\ draftIdOf(drafts[i]) \notin approvedDraftIds
    /\ approvedDraftIds' = approvedDraftIds \cup {draftIdOf(drafts[i])}
    /\ UNCHANGED <<xvars, rvars, approvedBefore, stepTimers, scanStatus, scanStep, scanData, scanError, activeAgentId,
                   publishHistory, publishingIds, autoApproveThreshold, scanCalls,
                   postCalls, bulkRuns, submitted,
                   scansStarted, publishesStarted>>

\* lines 1244-1260: Revoke on the card of draft i
Revoke(i) ==
    /\ draftIdOf(drafts[i]) \in approvedDraftIds
    /\ approvedDraftIds' = approvedDraftIds \ {draftIdOf(drafts[i])}
    /\ UNCHANGED <<xvars, rvars, approvedBefore, stepTimers, scanStatus, scanStep, scanData, scanError, activeAgentId,
                   publishHistory, publishingIds, autoApproveThreshold, scanCalls,
                   postCalls, bulkRuns, submitted,
                   scansStarted, publishesStarted>>

\* lines 1361-1365 and 615-628: Post to Twitter on entry j of the approved
\* queue, up to the call of the agent
ClickPost(j) ==
    LET e == approvedDrafts[j]
    IN  /\ ~postControlDisabled(draftIdOf(e.d))
        /\ Truthy(draftIdOf(e.d))
        /\ scansStarted + publishesStarted < MaxAgentCalls
        /\ publishesStarted' = publishesStarted + 1
        /\ SetPublisherState(publishStart(publisherState, e.d))
        /\ postCalls' = Append(postCalls, e)
        /\ submitted' = submitted \cup {e.ix}
        /\ UNCHANGED <<xvars, rvars, approvedBefore, stepTimers, scanStatus, scanStep, scanData, scanError, approvedDraftIds,
                       autoApproveThreshold, scanCalls, bulkRuns,
                   scansStarted>>

\* mutant of PostReturns: a publish that failed is sent to the agent again
PostReturnsRetries(c, outcome) ==
    /\ IF /\ recordAfter(postingRecord(postCalls[c].d), outcome).status = "failed"
          /\ scansStarted + publishesStarted < MaxAgentCalls
       THEN /\ publishesStarted' = publishesStarted + 1
            /\ UNCHANGED <<publishHistory, publishingIds, activeAgentId, postCalls>>
       ELSE /\ SetPublisherState(publishFinish(publisherState, draftIdOf(postCalls[c].d),
                                               outcome))
            /\ postCalls' = RemoveAt(postCalls, c)
            /\ UNCHANGED publishesStarted
    /\ UNCHANGED <<xvars, rvars, approvedBefore, stepTimers, scanStatus, scanStep, scanData, scanError, approvedDraftIds,
                   autoApproveThreshold, scanCalls, bulkRuns, submitted,
                   scansStarted>>

\* lines 628-685: the agent returned or threw for a Post to Twitter click
PostReturns(c, outcome) ==
    /\ SetPublisherState(publishFinish(publisherState, draftIdOf(postCalls[c].d), outcome))
    /\ postCalls' = RemoveAt(postCalls, c)
    /\ UNCHANGED <<xvars, rvars, approvedBefore, stepTimers, scanStatus, scanStep, scanData, scanError, approvedDraftIds,
                   autoApproveThreshold, scanCalls, bulkRuns, submitted,
                   scansStarted, publishesStarted>>

\* lines 1304-1308 and 689-696: Post All Approved, up to the first call of
\* the agent; the loop holds the approvedDrafts and the publishHistory of
\* the render the click happened in
ClickPostAll ==
    LET queue == nextToPublish(approvedDrafts, publishHistory)
    IN  /\ approvedDrafts # <<>>
        /\ ~postAllControlDisabled
        /\ queue # <<>>
        /\ scansStarted + publishesStarted < MaxAgentCalls
        /\ publishesStarted' = publishesStarted + 1
        /\ SetPublisherState(publishStart(publisherState, Head(queue).d))
        /\ bulkRuns' = Append(bulkRuns,
                              [current |-> Head(queue),
                               rest |-> Tail(queue),
                               history |-> publishHistory,
                               onSuccess |-> FALSE,
                               inApproval |-> TRUE])
        /\ submitted' = submitted \cup {Head(queue).ix}
        /\ UNCHANGED <<xvars, rvars, approvedBefore, stepTimers, scanStatus, scanStep, scanData, scanError, approvedDraftIds,
                       autoApproveThreshold, scanCalls, postCalls,
                   scansStarted>>

\* mutant of BulkReturns: the loop ends at the first draft whose publish
\* fails
BulkReturnsStopsOnFailure(r, outcome) ==
    LET run == bulkRuns[r]
        finished == publishFinish(publisherState, draftIdOf(run.current.d), outcome)
        queue == IF recordAfter(postingRecord(run.current.d), outcome).status = "failed"
                 THEN <<>>
                 ELSE nextToPublish(run.rest, run.history)
    IN  /\ IF queue = <<>>
           THEN /\ SetPublisherState(finished)
                /\ bulkRuns' = RemoveAt(bulkRuns, r)
                /\ UNCHANGED <<submitted, publishesStarted>>
           ELSE /\ publishesStarted' = publishesStarted + 1
                /\ SetPublisherState(publishStart(finished, Head(queue).d))
                /\ bulkRuns' = [bulkRuns EXCEPT
                                  ![r] = [current |-> Head(queue),
                                          rest |-> Tail(queue),
                                          history |-> run.history,
                                          onSuccess |-> hasSuccess(finished.history,
                                                          draftIdOf(Head(queue).d)),
                                          inApproval |-> draftIdOf(Head(queue).d)
                                                           \in approvedDraftIds]]
                /\ submitted' = (submitted \cup {Head(queue).ix}) \ {0}
        /\ UNCHANGED <<xvars, rvars, approvedBefore, stepTimers, scanStatus, scanStep, scanData, scanError, approvedDraftIds,
                       autoApproveThreshold, scanCalls, postCalls,
                   scansStarted>>

\* lines 628-685 and 690-695: the agent returned or threw for the draft a
\* Post All Approved loop waits for; the loop goes on to its next draft.
\* onSuccess tells whether the record of that draft was success when the
\* loop called the agent for it, inApproval whether its id was in
\* approvedDraftIds then
BulkReturns(r, outcome) ==
    LET run == bulkRuns[r]
        finished == publishFinish(publisherState, draftIdOf(run.current.d), outcome)
        queue == nextToPublish(run.rest, run.history)
    IN  /\ IF queue = <<>>
           THEN /\ SetPublisherState(finished)
                /\ bulkRuns' = RemoveAt(bulkRuns, r)
                /\ UNCHANGED <<submitted, publishesStarted>>
           ELSE /\ publishesStarted' = publishesStarted + 1
                /\ SetPublisherState(publishStart(finished, Head(queue).d))
                /\ bulkRuns' = [bulkRuns EXCEPT
                                  ![r] = [current |-> Head(queue),
                                          rest |-> Tail(queue),
                                          history |-> run.history,
                                          onSuccess |-> hasSuccess(finished.history,
                                                          draftIdOf(Head(queue).d)),
                                          inApproval |-> draftIdOf(Head(queue).d)
                                                           \in approvedDraftIds]]
                /\ submitted' = (submitted \cup {Head(queue).ix}) \ {0}
        /\ UNCHANGED <<xvars, rvars, approvedBefore, stepTimers, scanStatus, scanStep, scanData, scanError, approvedDraftIds,
                       autoApproveThreshold, scanCalls, postCalls,
                   scansStarted>>

Next ==
    \/ RunScan
    \/ \E n \in { t.scan : t \in stepTimers } : StepTimer(n)
    \/ \E c \in DOMAIN scanCalls : \E outcome \in ScanOutcomes : ScanReturns(c, outcome)
    \/ \E t \in ThresholdChoices : SetAutoApproveThreshold(t)
    \/ \E i \in DOMAIN drafts : Approve(i)
    \/ \E i \in DOMAIN drafts : Revoke(i)
    \/ \E j \in DOMAIN approvedDrafts : ClickPost(j)
    \/ \E c \in DOMAIN postCalls : \E outcome \in PublishOutcomes : PostReturns(c, outcome)
    \/ ClickPostAll
    \/ \E r \in DOMAIN bulkRuns : \E outcome \in PublishOutcomes : BulkReturns(r, outcome)

\* ------------------------------------------------------------------------
\* Replies of the agents: built field by field, then handed to the code
\* that runs when callAIAgent returns (runScan from line 538, publishThread
\* from line 630)
\* ------------------------------------------------------------------------
MaxDrafts == 2

S_SUCCESS == <<"S", "U", "C", "C", "E", "S", "S">>
S_80 == <<"8", "0">>
S_TweetPosted ==
    <<"T", "w", "e", "e", "t", " ", "P", "o", "s", "t", "e", "d", "!">>
S_rateLimited ==
    <<"r", "a", "t", "e", " ", "l", "i", "m", "i", "t", "e", "d">>

\* a free text longer than both excerpts (310 characters: 1234567890123...)
LongText == [i \in 1..310 |-> Digits[(i % 10) + 1]]

\* elements of thread_drafts as the agent may send them
RawDrafts ==
    { Null, Num(7), Text(S_hello), Obj(EmptyFields),
      Obj(("id" :> Text(S_draft1)) @@ ("relevance_score" :> Num(80))),
      Obj(("id" :> Null) @@ ("title" :> Null) @@ ("requires_review" :> Text(S_true))),
      Obj("relevance_score" :> Num(150)),
      Obj("relevance_score" :> Num(0 - 5)),
      Obj(("id" :> Num(7)) @@ ("classification" :> Num(3))
          @@ ("hook" :> Bool(TRUE)) @@ ("relevance_score" :> Text(S_80))) }

\* fields of the reply of the manager agent
ScanFields ==
    { <<"pipeline_status", Text(S_completed)>>,
      <<"hn_results", Obj("stories" :> Arr(<<Obj("title" :> Text(S_x))>>))>>,
      <<"hn_results", Text(S_hello)>>,
      <<"hn_results", Null>>,
      <<"arxiv_results", Obj("papers" :> Text(S_hello))>>,
      <<"arxiv_results", Num(0)>>,
      <<"thread_drafts", Arr(<<>>)>>,
      <<"thread_drafts", Text(S_hello)>>,
      <<"message", Text(LongText)>>,
      <<"text", Text(S_rateLimited)>> }

\* fields of the reply of the Twitter agent
PublishFields ==
    { <<"post_status", Text(S_success)>>,
      <<"post_status", Text(S_Success)>>,
      <<"post_status", Text(S_SUCCESS)>>,
      <<"post_status", Text(S_failed)>>,
      <<"post_status", Num(500)>>,
      <<"post_status", Null>>,
      <<"tweet_url", Text(S_url)>>,
      <<"timestamp", Text(S_t1)>>,
      <<"error_message", Text(S_boom)>>,
      <<"message", Text(S_TweetPosted)>>,
      <<"message", Text(S_rateLimited)>>,
      <<"message", Text(<<>>)>>,
      <<"message", Num(5)>>,
      <<"text", Text(S_SUCCESS)>>,
      <<"text", Text(S_hello)>>,
      <<"text", Text(LongText)>> }

\* what a call that fails hands back: result.error and
\* result.response.message of a result with success false, or the message
\* of the exception thrown
ErrorFields ==
    { <<"error", Text(S_boom)>>,
      <<"error", Text(<<>>)>>,
      <<"error", Null>>,
      <<"message", Text(S_rateLimited)>>,
      <<"message", Null>> }

ReplyFields(kind) ==
    CASE kind = "scan" -> ScanFields
      [] kind = "publish" -> PublishFields
      [] kind \in {"scanError", "publishError"} -> ErrorFields

\* where the reply sits in the result of callAIAgent (lines 132-137):
\* response.result, response.result as stringified JSON, response.message
\* as stringified JSON, or response itself
Deliveries == {"result", "resultString", "message", "flat"}

DeliverAs(how, reply) ==
    CASE how = "result" -> Envelope(TRUE, Obj("result" :> reply))
      [] how = "resultString" -> Envelope(TRUE, Obj("result" :> JsonStr(reply)))
      [] how = "message" -> Envelope(TRUE, Obj("message" :> JsonStr(reply)))
      [] how = "flat" -> Envelope(TRUE, reply)

\* how a call fails: a result with success false, with or without a
\* response, an Error thrown, or a value that is no Error thrown
Failures == {"refused", "refusedBare", "thrown", "thrownValue"}

Only(f, keys) == [k \in DOMAIN f \cap keys |-> f[k]]

FailAs(how, reply) ==
    CASE how = "refused" ->
           Returned(Obj(("success" :> Bool(FALSE)) @@ Only(reply.f, {"error"})
                        @@ ("response" :> Obj(Only(reply.f, {"message"})))))
      [] how = "refusedBare" ->
           Returned(Obj(("success" :> Bool(FALSE)) @@ Only(reply.f, {"error"})))
      [] how = "thrown" ->
           Thrown(ErrorOf(IF Get(reply, "message").t = "string"
                          THEN Get(reply, "message") ELSE Text(S_boom)))
      [] how = "thrownValue" -> Thrown(Get(reply, "message"))

\* the state of the scan before the call returns
ScanningState ==
    [status |-> "scanning", step |-> 1, data |-> Null, error |-> Null, approved |-> {}]

\* the record of the draft before the call returns
PostingState == postingRecord(sanitizeDraft(Undef, 0))

\* the record of another draft, posted before
OtherRecord ==
    [postingRecord(Obj("id" :> Text(S_x))) EXCEPT
        !.status = "success", !.tweetUrl = Text(S_url), !.timestamp = Text(S_t1)]

\* the publisher state while the call for the draft is in flight
PostingPublisher ==
    [history |-> <<OtherRecord, PostingState>>,
     ids |-> {PostingState.draftId},
     agent |-> TWITTER_AGENT_ID]

RInit ==
    /\ rKind \in {"scan", "publish", "scanError", "publishError"}
    /\ rReply = Obj(EmptyFields)
    /\ rOut = NotRun

\* { ...rReply, k: v }
RSetField(k, v) ==
    /\ rOut = NotRun
    /\ <<k, v>> \in ReplyFields(rKind)
    /\ k \notin DOMAIN rReply.f
    /\ rReply' = Obj(rReply.f @@ (k :> v))
    /\ UNCHANGED <<rKind, rOut, xvars, mvars>>

\* rReply.thread_drafts.push(d)
RAddDraft(d) ==
    /\ rOut = NotRun
    /\ rKind = "scan"
    /\ IsArray(Get(rReply, "thread_drafts"))
    /\ Len(rReply.f["thread_drafts"].a) < MaxDrafts
    /\ rReply' = Obj([rReply.f EXCEPT !["thread_drafts"] = Arr(Append(@.a, d))])
    /\ UNCHANGED <<rKind, rOut, xvars, mvars>>

\* lines 538-601: runScan gets the reply
RScan(how) ==
    /\ rOut = NotRun
    /\ rKind = "scan"
    /\ rOut' = [env |-> DeliverAs(how, rReply),
                scan |-> scanFinish(ScanningState, Returned(DeliverAs(how, rReply)),
                                    DefaultAutoApproveThreshold)]
    /\ UNCHANGED <<rKind, rReply, xvars, mvars>>

\* lines 630-668: publishThread gets the reply
RPublish(how) ==
    /\ rOut = NotRun
    /\ rKind = "publish"
    /\ rOut' = [env |-> DeliverAs(how, rReply),
                record |-> recordAfter(PostingState, Returned(DeliverAs(how, rReply)))]
    /\ UNCHANGED <<rKind, rReply, xvars, mvars>>

\* lines 597-610: the call of runScan fails
RScanFails(how) ==
    /\ rOut = NotRun
    /\ rKind = "scanError"
    /\ rOut' = [outcome |-> FailAs(how, rReply),
                scan |-> scanFinish(ScanningState, FailAs(how, rReply),
                                    DefaultAutoApproveThreshold)]
    /\ UNCHANGED <<rKind, rReply, xvars, mvars>>

\* lines 662-685: the call of publishThread fails
RPublishFails(how) ==
    /\ rOut = NotRun
    /\ rKind = "publishError"
    /\ rOut' = [outcome |-> FailAs(how, rReply),
                publisher |-> publishFinish(PostingPublisher, PostingState.draftId,
                                            FailAs(how, rReply))]
    /\ UNCHANGED <<rKind, rReply, xvars, mvars>>

RNext ==
    \/ \E f \in ScanFields \cup PublishFields \cup ErrorFields : RSetField(f[1], f[2])
    \/ \E d \in RawDrafts : RAddDraft(d)
    \/ \E how \in Deliveries : RScan(how)
    \/ \E how \in Deliveries : RPublish(how)
    \/ \E how \in Failures : RScanFails(how)
    \/ \E how \in Failures : RPublishFails(how)

\* the reply variables while the page or the extractor runs
RIdle ==
    /\ rKind = "scan"
    /\ rReply = Obj(EmptyFields)
    /\ rOut = NotRun

\* the extractor variables while the page runs
XIdle ==
    /\ xKey = "pipeline_status"
    /\ xEnv = Null
    /\ xOut = NotRun
    /\ xAgain = NotRun
    /\ xWraps = 0
    /\ xSibling = FALSE

Init == MInit /\ XIdle /\ RIdle

Spec == Init /\ [][Next]_vars

\* every call of an agent returns or throws in the end (the await of lines
\* 525 and 628)
CallsReturn ==
    /\ WF_vars(\E c \in DOMAIN scanCalls : \E outcome \in ScanOutcomes :
                   ScanReturns(c, outcome))
    /\ WF_vars(\E c \in DOMAIN postCalls : \E outcome \in PublishOutcomes :
                   PostReturns(c, outcome))
    /\ WF_vars(\E r \in DOMAIN bulkRuns : \E outcome \in PublishOutcomes :
                   BulkReturns(r, outcome))

\* calls of the agents the user starts in one run of the page under SpecLive
MaxLiveCalls == 3

LiveBudget == scansStarted + publishesStarted < MaxLiveCalls

\* Next, with the calls the user starts counted against MaxLiveCalls
LiveNext ==
    \/ LiveBudget /\ RunScan
    \/ \E n \in { t.scan : t \in stepTimers } : StepTimer(n)
    \/ \E c \in DOMAIN scanCalls : \E outcome \in ScanOutcomes : ScanReturns(c, outcome)
    \/ \E t \in ThresholdChoices : SetAutoApproveThreshold(t)
    \/ \E i \in DOMAIN drafts : Approve(i)
    \/ \E i \in DOMAIN drafts : Revoke(i)
    \/ \E j \in DOMAIN approvedDrafts : LiveBudget /\ ClickPost(j)
    \/ LiveBudget /\ ClickPostAll
    \/ \E c \in DOMAIN postCalls : \E outcome \in PublishOutcomes : PostReturns(c, outcome)
    \/ \E r \in DOMAIN bulkRuns : \E outcome \in PublishOutcomes : BulkReturns(r, outcome)

SpecLive == Init /\ [][LiveNext]_vars /\ CallsReturn

InitExtract == XInit /\ MInit /\ RIdle

SpecExtract == InitExtract /\ [][XNext]_vars

InitReply == RInit /\ MInit /\ XIdle

SpecReply == InitReply /\ [][RNext]_vars

InitDeep == DInit /\ MInit /\ RIdle

SpecDeep == InitDeep /\ [][DNext]_vars

\* ------------------------------------------------------------------------
\* Claims about extractAgentData (checked under SpecExtract)
\* ------------------------------------------------------------------------
RECURSIVE ContainsMarkerObject(_, _)
\* v is, or holds at any depth (under any key, in any array, in any
\* embedded JSON text), a plain object with the key
ContainsMarkerObject(v, key) ==
    CASE v.t = "object" ->
            \/ key \in DOMAIN v.f
            \/ \E k \in DOMAIN v.f : ContainsMarkerObject(v.f[k], key)
      [] v.t = "array" -> \E i \in DOMAIN v.a : ContainsMarkerObject(v.a[i], key)
      [] v.t = "string" -> v.json # NoJson /\ ContainsMarkerObject(v.json, key)
      [] OTHER -> FALSE

IsMarkerObject(v, key) == v.t = "object" /\ key \in DOMAIN v.f

\* C4: extractAgentData returns null or a plain (non-array) object that
\* contains the marker key, never anything else, and returns null when no
\* object with the marker key exists anywhere in the envelope.
C4_MatchOrNull ==
    xOut # NotRun =>
        /\ xOut = Null \/ IsMarkerObject(xOut, xKey)
        /\ ~ContainsMarkerObject(xEnv, xKey) => xOut = Null

\* a marker object was found below the top of a wrapped envelope
C4_Witness ==
    /\ xOut # NotRun
    /\ IsMarkerObject(xOut, xKey)
    /\ xOut # xEnv
    /\ xWraps >= 2

\* C5 (as claimed): extracting from a non-null output M returns M.
C5_Idempotent == xAgain # NotRun => xAgain = xOut

\* C5 (amended): extracting from a non-null output M returns M when M holds
\* no further marker object under its own response or raw_response field.
C5_IdempotentNoNestedMarker ==
    (/\ xAgain # NotRun
     /\ ~ContainsMarkerObject(Get(xOut, "response"), xKey)
     /\ ~ContainsMarkerObject(Get(xOut, "raw_response"), xKey))
    => xAgain = xOut

\* an output found inside a wrapper, with a response field of its own, was
\* fed back and came out unchanged
C5_Witness ==
    /\ xAgain # NotRun
    /\ xAgain = xOut
    /\ xOut # xEnv
    /\ "response" \in DOMAIN xOut.f

\* the probe order the claim states
ClaimedProbeOrder ==
    <<"result", "response", "data", "output", "content", "message", "text",
      "raw_response">>

\* the keys of obj, in the claimed order, under which a deep search finds a
\* candidate
CandidateKeys(obj, key) ==
    SelectSeq(ClaimedProbeOrder,
              LAMBDA k : /\ ~Nullish(Get(obj, k))
                         /\ deepSearch(Get(obj, k), 1, key) # Null)

\* C6 (as claimed): an envelope object that holds valid candidates under two
\* different wrapper keys yields the candidate under the key that is earlier
\* in the probe order.
C6_EnvelopeProbeOrder ==
    (/\ xOut # NotRun
     /\ xEnv.t = "object"
     /\ ~IsMarkerObject(xEnv, xKey)
     /\ Len(CandidateKeys(xEnv, xKey)) >= 2)
    => xOut = deepSearch(Get(xEnv, CandidateKeys(xEnv, xKey)[1]), 1, xKey)

\* where the deep search of the call site starts when Paths 1 to 4 do not
\* apply: the envelope itself if it has neither response nor raw_response
SearchedAtTop(env) ==
    /\ env.t = "object"
    /\ "response" \notin DOMAIN env.f
    /\ "raw_response" \notin DOMAIN env.f

\* C6 (amended): in a deep search, an object that holds valid candidates
\* under two wrapper keys yields the candidate under the earlier key; this
\* is so for the envelope itself when it has neither a response nor a
\* raw_response field, and for result.response.result (Path 2).
C6_DeepSearchProbeOrder ==
    /\ (/\ xOut # NotRun
        /\ SearchedAtTop(xEnv)
        /\ ~IsMarkerObject(xEnv, xKey)
        /\ Len(CandidateKeys(xEnv, xKey)) >= 2)
       => xOut = deepSearch(Get(xEnv, CandidateKeys(xEnv, xKey)[1]), 1, xKey)
    /\ LET direct == Get(Get(xEnv, "response"), "result")
       IN  (/\ xOut # NotRun
            /\ direct.t = "object"
            /\ ~IsMarkerObject(direct, xKey)
            /\ Len(CandidateKeys(direct, xKey)) >= 2)
           => xOut = deepSearch(Get(direct, CandidateKeys(direct, xKey)[1]), 1, xKey)

\* two marker objects under result and data of the same object: the one
\* under result was returned
C6_Witness ==
    /\ xOut # NotRun
    /\ SearchedAtTop(xEnv)
    /\ ~IsMarkerObject(xEnv, xKey)
    /\ CandidateKeys(xEnv, xKey) = <<"result", "data">>
    /\ xOut = deepSearch(Get(xEnv, "result"), 1, xKey)
    /\ xOut # deepSearch(Get(xEnv, "data"), 1, xKey)

\* the five probes of the claim, in its order
ClaimedProbes(env, key) ==
    LET direct == Get(Get(env, "response"), "result")
    IN  << IF IsMarkerObject(direct, key) THEN direct ELSE Null,
           deepSearch(direct, 0, key),
           deepSearch(Get(env, "response"), 0, key),
           deepSearch(Get(env, "raw_response"), 0, key),
           deepSearch(env, 0, key) >>

\* C25: extractAgentData returns the first non-null outcome of: the value
\* of result.response.result itself if it has the marker, a deep search of
\* result.response.result, a deep search of result.response, a deep search
\* of result.raw_response, a deep search of the whole result; and null when
\* all five yield nothing.
C25_ResolutionOrder ==
    xOut # NotRun =>
        LET outcomes == SelectSeq(ClaimedProbes(xEnv, xKey), LAMBDA v : v # Null)
        IN  xOut = IF outcomes = <<>> THEN Null ELSE outcomes[1]

\* the first three probes found nothing, raw_response held a marker object
\* and so did another field: the one of raw_response was returned, which is
\* not what the search of the whole result finds
C25_Witness ==
    /\ xOut # NotRun
    /\ ClaimedProbes(xEnv, xKey)[3] = Null
    /\ ClaimedProbes(xEnv, xKey)[4] # Null
    /\ xOut = ClaimedProbes(xEnv, xKey)[4]
    /\ xOut # ClaimedProbes(xEnv, xKey)[5]

RECURSIVE MarkerOutsideArrays(_, _)
\* v is, or holds under keys and in embedded JSON text, without passing
\* through an array, a plain object with the key
MarkerOutsideArrays(v, key) ==
    CASE v.t = "object" ->
            \/ key \in DOMAIN v.f
            \/ \E k \in DOMAIN v.f : MarkerOutsideArrays(v.f[k], key)
      [] v.t = "string" -> v.json # NoJson /\ MarkerOutsideArrays(v.json, key)
      [] OTHER -> FALSE

\* C40: when every object with the marker key sits in an array (at the top,
\* under a key, as it is or within embedded JSON text), extractAgentData
\* returns null.
C40_ArraysNotSearched ==
    (xOut # NotRun /\ ContainsMarkerObject(xEnv, xKey)
         /\ ~MarkerOutsideArrays(xEnv, xKey)) => xOut = Null

\* the marker object in an array, the array as JSON text under result
C40_Witness ==
    /\ xOut = Null
    /\ ContainsMarkerObject(xEnv, xKey)
    /\ xEnv.t = "object"
    /\ Get(xEnv, "result").t = "string"
    /\ Get(xEnv, "result").json.t = "array"
    /\ IsMarkerObject(Get(xEnv, "result").json.a[1], xKey)

\* the marker object as the one element of the envelope
C40_TopLevelArray ==
    /\ xOut = Null
    /\ xEnv.t = "array"
    /\ IsMarkerObject(xEnv.a[1], xKey)

\* ------------------------------------------------------------------------
\* Claims about the depth of the search (checked under SpecDeep)
\* ------------------------------------------------------------------------
\* the values the deep searches of the call site start from (Paths 2 to 5)
SearchStarts(env) ==
    { Get(Get(env, "response"), "result"), Get(env, "response"),
      Get(env, "raw_response"), env }

NoLevel == 0 - 1

\* one more than the least level of below, NoLevel if there is none
NextLevel(below) ==
    IF below \ {NoLevel} = {} THEN NoLevel
    ELSE 1 + CHOOSE m \in below \ {NoLevel} : \A o \in below \ {NoLevel} : m <= o

RECURSIVE MarkerLevel(_, _)
\* the number of levels of nesting (key hops and embedded-JSON parses, one
\* level each) from v down to the nearest marker object, NoLevel without one
MarkerLevel(v, key) ==
    CASE IsMarkerObject(v, key) -> 0
      [] v.t \in {"object", "cyclic"} ->
            NextLevel({ MarkerLevel(v.f[k], key) : k \in DOMAIN v.f })
      [] v.t = "string" /\ v.json # NoJson -> NextLevel({ MarkerLevel(v.json, key) })
      [] OTHER -> NoLevel

RECURSIVE SearchLevel(_, _)
\* the same count, except that a parse that yields the marker object itself
\* is no level of its own
SearchLevel(v, key) ==
    CASE IsMarkerObject(v, key) -> 0
      [] v.t \in {"object", "cyclic"} ->
            NextLevel({ SearchLevel(v.f[k], key) : k \in DOMAIN v.f })
      [] v.t = "string" /\ v.json # NoJson ->
            IF IsMarkerObject(v.json, key) THEN 0
            ELSE NextLevel({ SearchLevel(v.json, key) })
      [] OTHER -> NoLevel

\* extractAgentData came back from an envelope that holds an object that
\* refers to itself, with null or a marker object
ReturnsOnCycles == (HasCycle(xEnv) /\ xOut # NotRun) => (xOut = Null \/ IsMarkerObject(xOut, xKey))

\* C28: extractAgentData returns on every input, objects that
\* refer to themselves included, and a marker object that lies more than 6
\* levels of nesting (wrapper-key hops or embedded-JSON parses) below the
\* start of every deep search is not returned.
C28_DepthBounded ==
    /\ ReturnsOnCycles
    /\ (/\ xOut # NotRun
        /\ \A start \in SearchStarts(xEnv) :
               MarkerLevel(start, xKey) = NoLevel \/ MarkerLevel(start, xKey) > 6)
       => xOut = Null

\* what the code does keep to (C28 with a parse that yields the marker
\* object itself not counted as a level): an embedded JSON text at level 6
\* that parses to a marker object is returned, nothing deeper is.
DepthBoundedAtTheString ==
    /\ ReturnsOnCycles
    /\ (/\ xOut # NotRun
        /\ \A start \in SearchStarts(xEnv) :
               SearchLevel(start, xKey) = NoLevel \/ SearchLevel(start, xKey) > 6)
       => xOut = Null

\* a marker object 7 key hops below the envelope was not returned
TooDeepNotReturned ==
    /\ xOut = Null
    /\ ~HasCycle(xEnv)
    /\ EmbedDepth(xEnv) = 0
    /\ SearchLevel(xEnv, xKey) = 7
    /\ Get(xEnv, "response") = Undef

\* a marker object was returned from an envelope that holds an object that
\* is its own result field, below 3 levels of wrapping
ReturnedFromCycle ==
    /\ xOut # NotRun
    /\ HasCycle(xEnv)
    /\ xWraps = 3
    /\ IsMarkerObject(xOut, xKey)

\* ------------------------------------------------------------------------
\* Claims about the page (checked under Spec)
\* ------------------------------------------------------------------------

\* the drafts of the current scan result have pairwise different ids
DistinctDraftIds ==
    \A i, j \in DOMAIN drafts :
        draftIdOf(drafts[i]) = draftIdOf(drafts[j]) => i = j

\* C1: when the Post All Approved loop reaches a draft whose publish record
\* has status success, it does not invoke the agent for it: no loop is ever
\* waiting for a call it made for a draft whose record was success at the
\* moment of the call. Stated for the plainest case: one scan only, and a
\* result whose drafts have pairwise different ids.
C1_BulkSkipsOnSuccess ==
    (scansStarted = 1 /\ DistinctDraftIds)
        => \A r \in DOMAIN bulkRuns : ~bulkRuns[r].onSuccess

\* the draft ids of the records of publishHistory, in order
recordIds == [r \in DOMAIN publishHistory |-> publishHistory[r].draftId]

\* C2: publishHistory holds at most one record per draft id.
C2_OneRecordPerDraftId ==
    \A r1, r2 \in DOMAIN publishHistory :
        recordIds[r1] = recordIds[r2] => r1 = r2

\* the same draft id was published twice, both calls are over, and there is
\* one record
C2_Witness ==
    /\ publishesStarted >= 2
    /\ postCalls = <<>>
    /\ bulkRuns = <<>>
    /\ Len(publishHistory) = 1
    /\ publishHistory[1].status # "posting"

\* C3: a draft of the current scan result that was never submitted for
\* publishing has no publish record, also after a later scan has replaced
\* the drafts of an earlier one. Stated for results whose drafts have
\* pairwise different ids.
C3_RecordOnlyForSubmitted ==
    DistinctDraftIds =>
        \A i \in DOMAIN drafts :
            i \notin submitted =>
                \A r \in DOMAIN publishHistory : recordIds[r] # draftIdOf(drafts[i])

\* the rule of the claim for one draft of a scan result
meetsAutoApprovalRule(d, threshold) ==
    /\ ~Truthy(Get(d, "requires_review"))
    /\ Get(d, "relevance_score").t = "number"
    /\ Get(d, "relevance_score").n >= threshold

\* a step in which a scan completes
ScanCompletes == scanStatus = "scanning" /\ scanStatus' = "completed"

\* C7: immediately after a scan completes, a draft of the new result is in
\* the approved set if and only if its requires_review is false and its
\* relevance_score is at least the threshold (the one in force when the scan
\* was started).
C7_AutoApprovalRule ==
    [][ScanCompletes =>
          \A i \in DOMAIN drafts' :
              (draftIdOf(drafts'[i]) \in approvedDraftIds')
                  <=> meetsAutoApprovalRule(drafts'[i], scanCalls[1].threshold)]_vars

\* C8: when a scan completes, the approval set becomes the set of the ids of
\* the drafts of the new result that meet the auto-approval rule; an id
\* approved before stays only if the new result auto-approves it again.
C8_ApprovalSetReplaced ==
    [][ScanCompletes =>
          LET autoApproved ==
                  { draftIdOf(drafts'[i]) :
                      i \in { j \in DOMAIN drafts' :
                                meetsAutoApprovalRule(drafts'[j],
                                                      scanCalls[1].threshold) } }
          IN  /\ approvedDraftIds' = autoApproved
              /\ \A id \in approvedDraftIds :
                     id \in approvedDraftIds' => id \in autoApproved]_vars

\* a second scan has completed and an id that was approved before it (the
\* id of a draft of its result too) is no longer in the approval set
C8_Witness ==
    /\ scanStatus = "completed"
    /\ scansStarted >= 2
    /\ \E i \in DOMAIN drafts :
           /\ draftIdOf(drafts[i]) \in approvedBefore
           /\ draftIdOf(drafts[i]) \notin approvedDraftIds

\* C9: at most one runScan call waits for the manager agent, and one does
\* exactly while scanStatus is scanning.
C9_OneScanInFlight ==
    /\ Len(scanCalls) <= 1
    /\ (scanStatus = "scanning") <=> (Len(scanCalls) = 1)

\* a second scan is in flight after the first one has ended
C9_Witness ==
    /\ scansStarted = 2
    /\ Len(scanCalls) = 1
    /\ scanStatus = "scanning"

ClaimedTransitions ==
    { <<"idle", "scanning">>, <<"completed", "scanning">>, <<"failed", "scanning">>,
      <<"scanning", "completed">>, <<"scanning", "failed">> }

\* C10: scanStatus changes only along idle->scanning, completed->scanning,
\* failed->scanning, scanning->completed and scanning->failed; the step that
\* starts a scan leaves scanError null and scanStep 1.
C10_ScanStatusTransitions ==
    [][/\ scanStatus' # scanStatus => <<scanStatus, scanStatus'>> \in ClaimedTransitions
       /\ (scanStatus # "scanning" /\ scanStatus' = "scanning")
              => (scanError' = Null /\ scanStep' = 1)]_vars

\* a scan was started after a failed one (no result was ever stored): the
\* error of the failed scan is gone and the step is 1
C10_Witness ==
    /\ scansStarted = 2
    /\ scanStatus = "scanning"
    /\ scanData = Null
    /\ scanError = Null
    /\ scanStep = 1

TerminalStatus == {"completed", "failed"}

\* C12: when a scan has reached completed or failed, none of its step
\* timers is pending (every pending timer belongs to a scan that still
\* waits for the agent), and scanStep does not change while scanStatus
\* stays completed or failed.
C12_TimersCancelled ==
    [][/\ \A t \in stepTimers' : \E c \in DOMAIN scanCalls' : scanCalls'[c].scan = t.scan
       /\ scanStatus' \in TerminalStatus => stepTimers' = {}
       /\ (scanStatus \in TerminalStatus /\ scanStatus' = scanStatus)
              => scanStep' = scanStep]_vars

\* a scan failed after its first timer had fired: the other two timers
\* are gone and the step is still 2
C12_Witness ==
    /\ scanStatus = "failed"
    /\ scansStarted = 1
    /\ scanStep = 2
    /\ stepTimers = {}

\* the status of the record of a draft id in a history, "none" without one
statusOf(history, draftId) ==
    IF \E r \in DOMAIN history : history[r].draftId = draftId
    THEN history[CHOOSE r \in DOMAIN history : history[r].draftId = draftId].status
    ELSE "none"

ClaimedRecordTransitions ==
    { <<"none", "pending">>, <<"pending", "posting">>, <<"posting", "success">>,
      <<"posting", "failed">>, <<"success", "posting">>, <<"failed", "posting">> }

\* C13: the status of the publish record of a draft id changes only along
\* (none)->pending, pending->posting, posting->success, posting->failed,
\* success->posting and failed->posting. Stated for the plainest case (one
\* scan only, drafts with pairwise different ids) and with (none)->posting
\* let through, since publishThread creates the record as posting: what is
\* left is that a record never moves directly between success and failed.
C13_RecordStatusTransitions ==
    [][(scansStarted = 1 /\ DistinctDraftIds) =>
          \A r \in DOMAIN publishHistory' :
              LET id == publishHistory'[r].draftId
                  before == statusOf(publishHistory, id)
                  after == statusOf(publishHistory', id)
              IN  before # after =>
                      <<before, after>> \in
                          ClaimedRecordTransitions \cup {<<"none", "posting">>}]_vars

\* C14: bulk publish is serialized: two publish calls issued by Post All
\* Approved loops are never in flight together (each loop waits for one
\* call at a time, so this says that two loops never run together). Stated
\* for the plainest case: one scan only, drafts with pairwise different ids.
C14_BulkSerialized ==
    (scansStarted = 1 /\ DistinctDraftIds) => Len(bulkRuns) <= 1

\* C15: at most one publish call to the agent is in flight at any time.
C15_OnePublishInFlight == Len(postCalls) + Len(bulkRuns) <= 1

\* C16: publishAllApproved submits a draft only if its id is in the approval
\* set at the moment it is submitted. Stated for the plainest case: one scan
\* only, drafts with pairwise different ids.
C16_BulkSubmitsApprovedOnly ==
    (scansStarted = 1 /\ DistinctDraftIds)
        => \A r \in DOMAIN bulkRuns : bulkRuns[r].inApproval

\* C18: in every stored scanData no two entries of thread_drafts have the
\* same id.
C18_UniqueDraftIds ==
    \A i, j \in DOMAIN drafts :
        i # j => draftIdOf(drafts[i]) # draftIdOf(drafts[j])

\* C22: scanData changes only in the step in which a scan completes:
\* approving, revoking, a single publish, a bulk publish, their returns, a
\* failed scan, the start of a scan and the step timers leave the scan
\* result and every draft in it as they were.
C22_DraftsImmutable == [][scanData' # scanData => ScanCompletes]_vars

\* a scan result is still there after a publish of one of its drafts and a
\* later scan that failed after its first step timer had fired
C22_Witness ==
    /\ scanData # Null
    /\ scanStatus = "failed"
    /\ scansStarted = 2
    /\ publishHistory # <<>>
    /\ scanStep = 2

\* C27: while a publish record has status pending or posting, its tweetUrl,
\* timestamp and errorMessage are all empty: these fields hold something
\* only in records whose status is success or failed.
C27_FieldsEmptyUntilTerminal ==
    \A r \in DOMAIN publishHistory :
        publishHistory[r].status \in {"pending", "posting"} =>
            /\ publishHistory[r].tweetUrl = Text(<<>>)
            /\ publishHistory[r].timestamp = Text(<<>>)
            /\ publishHistory[r].errorMessage = Text(<<>>)

\* a draft is being posted a second time, its first call being over: the
\* one record of the history is posting and holds nothing of the first call
C27_Witness ==
    /\ publishesStarted = 2
    /\ Len(postCalls) + Len(bulkRuns) = 1
    /\ Len(publishHistory) = 1
    /\ publishHistory[1].status = "posting"
    /\ publishHistory[1].tweetUrl = Text(<<>>)

\* the draft ids of the publishThread calls that wait for the agent
publishesInFlight ==
    [c \in DOMAIN postCalls |-> draftIdOf(postCalls[c].d)]
        \o [r \in DOMAIN bulkRuns |-> draftIdOf(bulkRuns[r].current.d)]

\* C29: no two publish calls for the same draft id are in flight together,
\* under any interleaving of Post clicks with a running Post All Approved,
\* and a draft id is in publishingIds as long as a call for it is in
\* flight. Stated for the plainest case: one scan only, drafts with
\* pairwise different ids.
C29_OneCallPerDraftId ==
    (scansStarted = 1 /\ DistinctDraftIds) =>
        /\ \A c1, c2 \in DOMAIN publishesInFlight :
               publishesInFlight[c1] = publishesInFlight[c2] => c1 = c2
        /\ \A c \in DOMAIN publishesInFlight : publishesInFlight[c] \in publishingIds

\* C30: activeAgentId is null exactly when no call of an agent is in flight,
\* and otherwise names the agent of a call that is in flight: the manager
\* agent for a scan, the Twitter agent for a publish.
C30_ActiveAgentConsistent ==
    /\ activeAgentId = NoAgent <=> (scanCalls = <<>> /\ publishesInFlight = <<>>)
    /\ activeAgentId = MANAGER_AGENT_ID => scanCalls # <<>>
    /\ activeAgentId = TWITTER_AGENT_ID => publishesInFlight # <<>>

ScanStarts == scanStatus # "scanning" /\ scanStatus' = "scanning"

ScanFails == scanStatus = "scanning" /\ scanStatus' = "failed"

\* C31: the steps of a scan that ends in failed (its start, and the return
\* of the call into any of the failed branches) leave scanData,
\* approvedDraftIds and publishHistory as they are.
C31_FailedScanLeavesState ==
    [][(ScanStarts \/ ScanFails) =>
           UNCHANGED <<scanData, approvedDraftIds, publishHistory>>]_vars

\* a second scan has failed with a result, approvals and records in place
C31_Witness ==
    /\ scanStatus = "failed"
    /\ scansStarted = 2
    /\ scanData # Null
    /\ approvedDraftIds # {}
    /\ publishHistory # <<>>

\* the ids the drafts of the model get
PossibleDraftIds == { Text(S_draft_ \o NumberText(n)) : n \in 1..2 }

TerminalRecordStatus == {"success", "failed"}

\* C32 (under SpecLive: every call of an agent returns or throws): a scan
\* that is scanning ends in completed or failed, and the record of a draft
\* id that is posting ends in success or failed, whatever comes back, a
\* post_status that is not a string included.
C32_CallsEndInTerminal ==
    /\ (scanStatus = "scanning") ~> (scanStatus \in TerminalStatus)
    /\ \A id \in PossibleDraftIds :
           (statusOf(publishHistory, id) = "posting")
               ~> (statusOf(publishHistory, id) \in TerminalRecordStatus)

\* a publish came back with a post_status that is not a string and its
\* record is failed; a second scan has ended
C32_Witness ==
    /\ scansStarted = 2
    /\ scanStatus \in TerminalStatus
    /\ scanCalls = <<>> /\ postCalls = <<>> /\ bulkRuns = <<>>
    /\ \E r \in DOMAIN publishHistory :
           /\ publishHistory[r].status = "failed"
           /\ publishHistory[r].errorMessage = Text(S_TypeErrorMessage)

\* a step timer has fired: a pending timer is gone and no call has returned
TimerFires == stepTimers' # stepTimers /\ stepTimers' \subseteq stepTimers /\ scanCalls' = scanCalls

\* C33: while scanStatus is scanning scanStep is one of 1..4; scanStep is 5
\* exactly when scanStatus is completed; within one scan scanStep never
\* decreases; a step timer that fires leaves scanStatus as it is.
C33_StepFollowsStatus ==
    /\ [](scanStatus = "scanning" => scanStep \in 1..4)
    /\ [](scanStep = 5 <=> scanStatus = "completed")
    /\ [][(scanStatus = "scanning" /\ scansStarted' = scansStarted) => scanStep' >= scanStep]_vars
    /\ [][TimerFires => scanStatus' = scanStatus]_vars

\* the three timers of a second scan have fired
C33_Witness ==
    /\ scansStarted = 2
    /\ scanStatus = "scanning"
    /\ scanStep = 4
    /\ stepTimers = {}

\* the publish that came back with this outcome ends in failed
FailsPublish(outcome) == recordAfter(PostingState, outcome).status = "failed"

\* the positions of the drafts the loop still has in front of it and calls
\* the agent for: a draft id, and no success record in the history the loop
\* holds (line 691)
StillToSubmit(run) ==
    { i \in DOMAIN run.rest :
          /\ Truthy(draftIdOf(run.rest[i].d))
          /\ ~hasSuccess(run.history, draftIdOf(run.rest[i].d)) }

\* C38: when the publish of a draft of a Post All Approved loop ends in
\* failed, the loop goes on: the next of its approved drafts without a
\* success record is submitted in the same step (and so, return by return,
\* every later one).
C38_BulkGoesOnAfterFailure ==
    [][\A r \in DOMAIN bulkRuns : \A outcome \in PublishOutcomes :
           (BulkReturns(r, outcome) /\ FailsPublish(outcome)
                /\ StillToSubmit(bulkRuns[r]) # {}) =>
               LET run == bulkRuns[r]
                   first == CHOOSE i \in StillToSubmit(run) :
                                \A o \in StillToSubmit(run) : i <= o
                   id == draftIdOf(run.rest[first].d)
               IN  /\ publishesStarted' = publishesStarted + 1
                   /\ id \in publishingIds'
                   /\ statusOf(publishHistory', id) = "posting"
                   /\ \E q \in DOMAIN bulkRuns' :
                          /\ bulkRuns'[q].current = run.rest[first]
                          /\ bulkRuns'[q].rest
                                 = SubSeq(run.rest, first + 1, Len(run.rest))]_vars

\* the loop has called the agent for draft-2 after the publish of draft-1
\* failed
C38_Witness ==
    /\ publishesStarted = 2
    /\ postCalls = <<>>
    /\ \E r \in DOMAIN bulkRuns : bulkRuns[r].current.ix = 2
    /\ statusOf(publishHistory, Text(S_draft1)) = "failed"
    /\ statusOf(publishHistory, Text(S_draft_ \o <<"2">>)) = "posting"

\* the steps the user takes
UserAction ==
    \/ RunScan
    \/ \E t \in ThresholdChoices : SetAutoApproveThreshold(t)
    \/ \E i \in DOMAIN drafts : Approve(i) \/ Revoke(i)
    \/ \E j \in DOMAIN approvedDrafts : ClickPost(j)
    \/ ClickPostAll

callsInFlight == Len(scanCalls) + Len(postCalls) + Len(bulkRuns)

\* a Post All Approved loop has gone on to a later draft of its list
LoopGoesOn ==
    \E r \in DOMAIN bulkRuns :
        /\ r \in DOMAIN bulkRuns'
        /\ \E i \in DOMAIN bulkRuns[r].rest :
               /\ bulkRuns'[r].current = bulkRuns[r].rest[i]
               /\ bulkRuns'[r].rest = SubSeq(bulkRuns[r].rest, i + 1, Len(bulkRuns[r].rest))

\* C39: Run Scan makes exactly one call of the manager agent, Post to
\* Twitter at most one call of the Twitter agent; a step that is no action
\* of the user (a call that returns or throws, a timer) starts no call, the
\* one exception being a Post All Approved loop that goes on to a later
\* draft of its list: no call is made again for what has failed.
C39_NoAutomaticRetry ==
    /\ [][RunScan => /\ scansStarted' = scansStarted + 1
                     /\ Len(scanCalls') = Len(scanCalls) + 1
                     /\ publishesStarted' = publishesStarted]_vars
    /\ [][(\E j \in DOMAIN approvedDrafts : ClickPost(j)) =>
              /\ publishesStarted' = publishesStarted + 1
              /\ callsInFlight' = callsInFlight + 1
              /\ scansStarted' = scansStarted]_vars
    /\ [][~UserAction =>
              /\ scansStarted' = scansStarted
              /\ callsInFlight' <= callsInFlight
              /\ publishesStarted' # publishesStarted =>
                     (publishesStarted' = publishesStarted + 1 /\ LoopGoesOn)]_vars

\* two scans and one publish were started by the user; the second scan and
\* the publish have failed, and no call is in flight
C39_Witness ==
    /\ scansStarted = 2
    /\ publishesStarted = 1
    /\ scanStatus = "failed"
    /\ \E r \in DOMAIN publishHistory : publishHistory[r].status = "failed"
    /\ callsInFlight = 0

\* ------------------------------------------------------------------------
\* Claims about the handling of a reply (checked under SpecReply)
\* ------------------------------------------------------------------------

\* runScan was handed the reply
ScanRan == rKind = "scan" /\ rOut # NotRun

\* the object the extractor locates in the envelope runScan got
LocatedScanData == extractAgentData(rOut.env, "pipeline_status")

SubCollections == {"thread_drafts", "hn_results", "arxiv_results"}

DraftFields ==
    {"id", "title", "classification", "thread_content", "hashtags", "hook",
     "requires_review", "review_reason", "source_url", "relevance_score"}

\* stories, papers and thread_drafts are sequences and every draft has every
\* field, none of them null or undefined
WellFormedScanData(data) ==
    /\ data.t = "object"
    /\ Get(Get(data, "hn_results"), "stories").t = "array"
    /\ Get(Get(data, "arxiv_results"), "papers").t = "array"
    /\ Get(data, "thread_drafts").t = "array"
    /\ \A i \in DOMAIN Get(data, "thread_drafts").a :
           LET d == Get(data, "thread_drafts").a[i]
           IN  /\ d.t = "object"
               /\ DOMAIN d.f = DraftFields
               /\ \A k \in DraftFields : ~Nullish(d.f[k])

\* C17: sanitizing is total: for every candidate that reaches it (missing
\* sub-objects, collections that are no arrays, thread_drafts with null or
\* non-object elements) it does not throw, so the scan completes, and the
\* stored result has stories, papers and thread_drafts as sequences and
\* every field of every draft set.
C17_SanitizeTotal ==
    ScanRan =>
        /\ hasPipelineData(LocatedScanData) => rOut.scan.status = "completed"
        /\ rOut.scan.status = "completed" => WellFormedScanData(rOut.scan.data)

\* a result was stored for a reply whose thread_drafts holds null and whose
\* papers is no array
C17_Witness ==
    /\ ScanRan
    /\ rOut.scan.status = "completed"
    /\ Get(Get(rReply, "arxiv_results"), "papers").t = "string"
    /\ IsArray(Get(rReply, "thread_drafts"))
    /\ \E i \in DOMAIN Get(rReply, "thread_drafts").a :
           Get(rReply, "thread_drafts").a[i] = Null

\* C19: every draft of a stored scan result has a relevance_score that is a
\* number between 0 and 100 inclusive.
C19_ScoreInRange ==
    (ScanRan /\ rOut.scan.status = "completed") =>
        \A i \in DOMAIN rOut.scan.data.f["thread_drafts"].a :
            LET score == rOut.scan.data.f["thread_drafts"].a[i].f["relevance_score"]
            IN  score.t = "number" /\ score.n \in 0..100

\* publishThread was handed the reply
PublishRan == rKind = "publish" /\ rOut # NotRun

\* the object the extractor locates in the envelope publishThread got
LocatedTwitterData == extractAgentData(rOut.env, "post_status")

\* the spellings of success among the replies
SuccessSpellings == {S_success, S_Success, S_SUCCESS}

\* C20: when the publish call succeeds and an object with the post_status
\* marker is found, the record becomes success if and only if post_status
\* is "success" in any case, and then holds the tweet url and the timestamp
\* of the reply; otherwise it becomes failed and holds the error text of the
\* reply.
C20_StructuredPublishOutcome ==
    (PublishRan /\ LocatedTwitterData # Null) =>
        LET twitterData == LocatedTwitterData
            post_status == Get(twitterData, "post_status")
            isSuccess == post_status.t = "string" /\ post_status.s \in SuccessSpellings
        IN  /\ rOut.record.status = IF isSuccess THEN "success" ELSE "failed"
            /\ isSuccess =>
                   /\ rOut.record.tweetUrl = Coalesce(Get(twitterData, "tweet_url"), Text(<<>>))
                   /\ rOut.record.timestamp = Coalesce(Get(twitterData, "timestamp"), NowText)
            /\ ~isSuccess =>
                   rOut.record.errorMessage
                       = Coalesce(Get(twitterData, "error_message"), Text(<<>>))

\* the free-text reply of an envelope: response.message, or else the text,
\* or else the message, of response.result (the first that is not empty)
FreeTextReply(env) ==
    LET response == Get(env, "response")
        candidates == <<Get(response, "message"),
                        Get(Get(response, "result"), "text"),
                        Get(Get(response, "result"), "message")>>
        given == SelectSeq(candidates, Truthy)
    IN  IF given = <<>> THEN Text(<<>>) ELSE given[1]

ConfirmationKeywords ==
    { <<"p", "o", "s", "t", "e", "d">>, <<"t", "w", "e", "e", "t">>,
      <<"s", "u", "c", "c", "e", "s", "s">> }

\* character c is the lower-case letter l in either case
SameLetter(c, l) ==
    c = l \/ \E i \in DOMAIN LowerCase : LowerCase[i] = l /\ UpperCase[i] = c

ContainsIgnoringCase(text, keyword) ==
    \E i \in 1..(Len(text) - Len(keyword) + 1) :
        \A j \in 1..Len(keyword) : SameLetter(text[i + j - 1], keyword[j])

\* C21: when the publish call succeeds and no object with the post_status
\* marker is found, the record becomes success, with an empty tweet url, if
\* and only if the free-text reply contains posted, tweet or success in any
\* case; otherwise it becomes failed and its error detail is the reply text
\* cut to its first 200 characters (after the words "Unstructured
\* response: ").
C21_KeywordFallback ==
    (PublishRan /\ LocatedTwitterData = Null) =>
        LET reply == FreeTextReply(rOut.env)
            confirms ==
                /\ reply.t = "string"
                /\ \E keyword \in ConfirmationKeywords :
                       ContainsIgnoringCase(reply.s, keyword)
            text == StringOf(reply)
            excerpt == IF Len(text) > 200 THEN SubSeq(text, 1, 200) ELSE text
        IN  /\ rOut.record.status = IF confirms THEN "success" ELSE "failed"
            /\ rOut.record.tweetUrl = Text(<<>>)
            /\ confirms => rOut.record.errorMessage = Text(<<>>)
            /\ ~confirms =>
                   rOut.record.errorMessage = Text(S_UnstructuredPrefix \o excerpt)

\* the reply "Tweet Posted!" in response.message, with no structure at all,
\* made the record success with an empty tweet url
C21_Witness ==
    /\ PublishRan
    /\ LocatedTwitterData = Null
    /\ Get(Get(rOut.env, "response"), "message") = Text(S_TweetPosted)
    /\ rOut.record.status = "success"
    /\ rOut.record.tweetUrl = Text(<<>>)

\* a reply of 310 characters without a keyword made the record failed with
\* the first 200 characters as the error detail
C21_TruncatedFailure ==
    /\ PublishRan
    /\ LocatedTwitterData = Null
    /\ FreeTextReply(rOut.env) = Text(LongText)
    /\ rOut.record.status = "failed"
    /\ Len(rOut.record.errorMessage.s) = Len(S_UnstructuredPrefix) + 200

\* C23: whenever a scan result is stored, its hn_results.stories, its
\* arxiv_results.papers and its thread_drafts are sequences (possibly
\* empty), also when the reply left them out or sent something that is no
\* array in their place.
C23_CollectionsAreSequences ==
    (ScanRan /\ rOut.scan.data # Null) =>
        /\ IsArray(Get(Get(rOut.scan.data, "hn_results"), "stories"))
        /\ IsArray(Get(Get(rOut.scan.data, "arxiv_results"), "papers"))
        /\ IsArray(Get(rOut.scan.data, "thread_drafts"))

\* a result was stored for a reply whose hn_results and thread_drafts are
\* texts and which has no arxiv_results: the three collections are empty
C23_Witness ==
    /\ ScanRan
    /\ rOut.scan.data # Null
    /\ Get(rReply, "hn_results") = Text(S_hello)
    /\ Get(rReply, "thread_drafts") = Text(S_hello)
    /\ "arxiv_results" \notin DOMAIN rReply.f
    /\ Get(Get(rOut.scan.data, "hn_results"), "stories") = Arr(<<>>)
    /\ Get(Get(rOut.scan.data, "arxiv_results"), "papers") = Arr(<<>>)
    /\ Get(rOut.scan.data, "thread_drafts") = Arr(<<>>)

\* no structured result is located in the envelope runScan got: the
\* extractor found no marker object, or one without any of the collections
NoStructuredResult ==
    \/ LocatedScanData = Null
    \/ /\ ~IsArray(Get(LocatedScanData, "thread_drafts"))
       /\ ~Truthy(Get(LocatedScanData, "hn_results"))
       /\ ~Truthy(Get(LocatedScanData, "arxiv_results"))

\* the free text an envelope carries: response.message if it is a string,
\* or else response.result if it is one, or else response.result.text
ReturnedFreeText(env) ==
    LET response == Get(env, "response")
        candidates == <<Get(response, "message"), Get(response, "result"),
                        Get(Get(response, "result"), "text")>>
        texts == SelectSeq(candidates, LAMBDA v : v.t = "string")
    IN  IF texts = <<>> THEN <<>> ELSE texts[1].s

\* C24: when the scan call succeeds at transport level and no structured
\* result is located, the scan ends in failed and scanError is the fixed
\* introduction followed by the free text that was returned, cut to its
\* first 300 characters.
C24_UnstructuredScanFails ==
    (ScanRan /\ NoStructuredResult) =>
        LET text == ReturnedFreeText(rOut.env)
            intro == Len(S_NoStructuredPrefix)
            detail == rOut.scan.error.s
        IN  /\ rOut.scan.status = "failed"
            /\ rOut.scan.error.t = "string"
            /\ SubSeq(detail, 1, intro) = S_NoStructuredPrefix
            /\ Len(detail) - intro <= 300
            /\ Len(detail) - intro = IF Len(text) > 300 THEN 300 ELSE Len(text)
            /\ SubSeq(detail, intro + 1, Len(detail))
                   = SubSeq(text, 1, Len(detail) - intro)

\* a reply that is a text of 310 characters in response.message made the
\* scan fail with the first 300 of them in scanError
C24_Witness ==
    /\ ScanRan
    /\ LocatedScanData = Null
    /\ Get(Get(rOut.env, "response"), "message") = Text(LongText)
    /\ rOut.scan.status = "failed"
    /\ Len(rOut.scan.error.s) = Len(S_NoStructuredPrefix) + 300

\* the declared type of each field of a draft (ThreadDraft) and the default
\* the claim names for it
DeclaredType(field) ==
    CASE field = "requires_review" -> "boolean"
      [] field = "relevance_score" -> "number"
      [] OTHER -> "string"

\* the sanitized element i of thread_drafts and the element the reply held
SanitizedDraft(i) == rOut.scan.data.f["thread_drafts"].a[i]

\* upstream element i with every field of the wrong type taken out
WithoutMistyped(d) ==
    IF d.t # "object" THEN d
    ELSE Obj([k \in { f \in DOMAIN d.f : f \in DraftFields => d.f[f].t = DeclaredType(f) }
                |-> d.f[k]])

\* C26: every field of a sanitized draft has its declared type, and a
\* field whose upstream value has the wrong type is replaced by the default
\* of the field exactly as a missing field is: the draft is the one the
\* same element yields with its mistyped fields left out.
C26_FieldsHaveDeclaredType ==
    (ScanRan /\ rOut.scan.status = "completed") =>
        \A i \in DOMAIN rOut.scan.data.f["thread_drafts"].a :
            /\ \A field \in DraftFields :
                   SanitizedDraft(i).f[field].t = DeclaredType(field)
            /\ SanitizedDraft(i)
                   = sanitizeDraft(WithoutMistyped(LocatedScanData.f["thread_drafts"].a[i]),
                                   i - 1)

\* ------------------------------------------------------------------------
\* Claims about a call that fails (checked under SpecReply)
\* ------------------------------------------------------------------------
ScanCallFailed == rKind = "scanError" /\ rOut # NotRun

Absent(v) == v.t \in {"undefined", "null"}

\* the caller's message: result.error, else the message of the response,
\* else the fallback; for an Error thrown, its message
CallersMessage(outcome, fallback) ==
    IF outcome.kind = "thrown" THEN outcome.err.message
    ELSE IF "error" \in DOMAIN outcome.value.f /\ ~Absent(outcome.value.f["error"])
    THEN outcome.value.f["error"]
    ELSE IF /\ "response" \in DOMAIN outcome.value.f
            /\ "message" \in DOMAIN outcome.value.f["response"].f
            /\ ~Absent(outcome.value.f["response"].f["message"])
    THEN outcome.value.f["response"].f["message"]
    ELSE Text(fallback)

ThrewNoError(outcome) == outcome.kind = "thrown" /\ outcome.err.t # "error"

\* C34: when the call of runScan returns success false or throws, the scan
\* ends in failed, and scanError is result.error, else the message of the
\* response, else 'Unknown error occurred'; for an Error thrown, its message.
C34_ScanErrorMessage ==
    ScanCallFailed =>
        /\ rOut.scan.status = "failed"
        /\ ~ThrewNoError(rOut.outcome) =>
               rOut.scan.error = CallersMessage(rOut.outcome, S_UnknownErrorOccurred)

\* success false with no error and a message in the response
C34_Witness ==
    /\ ScanCallFailed
    /\ rOut.outcome.kind = "returned"
    /\ Get(rOut.outcome.value, "error") = Null
    /\ rOut.scan.status = "failed"
    /\ rOut.scan.error = Text(S_rateLimited)

\* success false with neither: the fallback text
C34_FallbackText ==
    /\ ScanCallFailed
    /\ rOut.outcome.kind = "returned"
    /\ rOut.scan.error = Text(S_UnknownErrorOccurred)

PublishCallFailed == rKind = "publishError" /\ rOut # NotRun

\* the record of the draft the call was made for, before and after
RecordOf(history, draftId) ==
    history[CHOOSE i \in DOMAIN history : history[i].draftId = draftId]

\* C35: when the call of publishThread for one draft returns success false
\* or throws, the record of that draft becomes failed with the error
\* message (result.error, else the message of the response, else 'Unknown
\* error'; the message of an Error thrown) in errorMessage, and the records
\* of the other draft ids stay as they are.
C35_PublishErrorRecord ==
    PublishCallFailed =>
        LET before == PostingPublisher.history
            after == rOut.publisher.history
            id == PostingState.draftId
        IN  /\ DOMAIN after = DOMAIN before
            /\ RecordOf(after, id).status = "failed"
            /\ ~ThrewNoError(rOut.outcome) =>
                   RecordOf(after, id).errorMessage
                       = CallersMessage(rOut.outcome, S_UnknownError)
            /\ \A i \in DOMAIN before :
                   before[i].draftId # id => after[i] = before[i]

\* an Error was thrown: its message is in the record of the draft, next to
\* the success record of another draft
C35_Witness ==
    /\ PublishCallFailed
    /\ rOut.outcome.kind = "thrown"
    /\ rOut.outcome.err = ErrorOf(Text(S_rateLimited))
    /\ RecordOf(rOut.publisher.history, PostingState.draftId).status = "failed"
    /\ RecordOf(rOut.publisher.history, PostingState.draftId).errorMessage
           = Text(S_rateLimited)
    /\ \E i \in DOMAIN rOut.publisher.history :
           rOut.publisher.history[i] = OtherRecord

\* ------------------------------------------------------------------------
\* Claims about the drafts of a completed scan (checked under SpecReply)
\* ------------------------------------------------------------------------
ScanCompleted == ScanRan /\ rOut.scan.status = "completed"

\* thread_drafts as the agent sent it, [] when it is no array
UpstreamDrafts ==
    IF IsArray(Get(LocatedScanData, "thread_drafts"))
    THEN Get(LocatedScanData, "thread_drafts").a ELSE <<>>

SanitizedDrafts == rOut.scan.data.f["thread_drafts"].a

\* the upstream element u carries field k (neither missing nor null)
Present(u, k) == u.t = "object" /\ k \in DOMAIN u.f /\ ~Absent(u.f[k])

\* C36: the draft at index i (from 0; position i + 1 here) has the upstream
\* id if there is one, else "draft-<i+1>"; requires_review is true only for
\* an upstream true; relevance_score is the upstream value if it is a
\* number, else 50; hook, hashtags and source_url that are absent become
\* empty strings.
C36_DraftDefaults ==
    ScanCompleted =>
        /\ DOMAIN SanitizedDrafts = DOMAIN UpstreamDrafts
        /\ \A p \in DOMAIN UpstreamDrafts :
               LET u == UpstreamDrafts[p]
                   d == SanitizedDrafts[p].f
               IN  /\ d["id"] = IF Present(u, "id") THEN u.f["id"]
                                 ELSE Text(S_draft_ \o NumberText(p))
                   /\ d["requires_review"]
                          = Bool(Present(u, "requires_review")
                                 /\ u.f["requires_review"] = Bool(TRUE))
                   /\ d["relevance_score"]
                          = IF Present(u, "relevance_score")
                               /\ u.f["relevance_score"].t = "number"
                            THEN u.f["relevance_score"] ELSE Num(50)
                   /\ \A k \in {"hook", "hashtags", "source_url"} :
                          ~Present(u, k) => d[k] = Text(<<>>)

\* a second draft without id, and a draft whose score came as the string
\* "80"
C36_Witness ==
    /\ ScanCompleted
    /\ Len(SanitizedDrafts) = 2
    /\ ~Present(UpstreamDrafts[2], "id")
    /\ SanitizedDrafts[2].f["id"] = Text(S_draft_ \o <<"2">>)
    /\ Get(UpstreamDrafts[1], "relevance_score") = Text(S_80)
    /\ SanitizedDrafts[1].f["relevance_score"] = Num(50)

\* C37: the sanitized thread_drafts has the length and the order of the
\* upstream array, and its entry at a position is made from the upstream
\* element at that position alone: an element that is no object gives the
\* draft made of defaults, and no entry is removed or changed by another.
C37_ElementWise ==
    ScanCompleted =>
        /\ Len(SanitizedDrafts) = Len(UpstreamDrafts)
        /\ \A p \in DOMAIN UpstreamDrafts :
               /\ SanitizedDrafts[p] = sanitizeDraft(UpstreamDrafts[p], p - 1)
               /\ UpstreamDrafts[p].t # "object" =>
                      SanitizedDrafts[p] = sanitizeDraft(Undef, p - 1)

\* a null element in front of a filled one, which is kept as it came
C37_Witness ==
    /\ ScanCompleted
    /\ Len(UpstreamDrafts) = 2
    /\ UpstreamDrafts[1] = Null
    /\ SanitizedDrafts[1].f["title"] = Text(S_Untitled)
    /\ Get(UpstreamDrafts[2], "relevance_score") = Num(80)
    /\ SanitizedDrafts[2].f["relevance_score"] = Num(80)
    /\ SanitizedDrafts[2].f["id"] = Text(S_draft1)

====
